---- MODULE Spec2Model ----
(***************************************************************************)
(* Document processing worker: the two trigger routes of src/server.js,    *)
(* the processDocument pipeline they start, and the status record of the   *)
(* document repository (src/unnamed/part_000) the pipeline writes.         *)
(*                                                                         *)
(* Node runs each handler to its next await without interleaving, so one   *)
(* action is one synchronous segment: from the resumption of an awaited    *)
(* call (whose outcome is the action's input) to the next await.           *)
(***************************************************************************)
EXTENDS Integers, Sequences, FiniteSets, TLC

\* ---------------------------------------------------------------- bounds
MaxReqs  == 2        \* trigger requests received
MaxRuns  == 2        \* pipeline runs started (specification Spec)
PollDocs == 11       \* documents in the table (specification SpecPoll)
MaxUploads == 2      \* documents uploaded (specification SpecUpload)
MaxChunks == 11      \* chunks handed to storeChunksWithEmbeddings (SpecBatch)
MaxPages == 2        \* pages of a parsed document (specification SpecPages)
MaxPdfPages == 3     \* pages a PDF reports (specification SpecParse)
MaxPdfSlices == 11   \* pages a PDF reports (specification SpecPdf)
MaxEmptyChunks == 2  \* chunks handed to storeChunksWithEmbeddings (SpecEmpty)
MaxSheets == 3       \* sheets of a workbook (specification SpecParse)
MaxStored == 3       \* stored chunks (specification SpecSearch)
DeleteDocs == 2      \* documents in the table (specification SpecDelete)

\* ----------------------------------------------------- program constants
PollLimit == 10      \* .limit(10) in getPendingDocuments
DefaultRetries == 3  \* generateEmbedding = async (text, retries = 3)
BackoffUnit == 2000  \* delay = (4 - retries) * 2000
MaxLength == 8000    \* maxLength in generateEmbedding
BatchSize == 5       \* batchSize in storeChunksWithEmbeddings
BatchPause == 1000   \* the delay between two batches
MaxStoredText == 5000 \* chunk.text.substring(0, 5000)
ChunkSize == 800     \* chunkText(page.text, 800, 100)
ChunkOverlap == 100
MinChunkLength == 50 \* if (chunk.length > 50)
CharsPerPage == 2000 \* splitTextIntoPages(text, 2000)
MinDetectLength == 10 \* text.trim().length < 10
DefaultTopK == 5     \* searchSimilarChunksManual(query, documentIds, topK = 5)

WORKER_SECRET == "s3cret"
Headers == {"Bearer s3cret", "Bearer wrong", "undefined"}

NULL    == "null"    \* SQL NULL in a text column
NoTime  == 0         \* SQL NULL in processed_at (timestamps are >= 1)
NoPages == -1        \* SQL NULL in total_pages

\* error messages (error.message of the thrown error)
E_DB       == "database error"
E_FETCH    == "Request failed"
E_PARSE    == "Failed to parse file"
E_NOPAGES  == "No pages extracted from document"
E_NOCHUNKS == "No valid chunks created from document"
E_NOEMBED  == "Failed to generate any valid embeddings"
E_NOSTORE  == "Failed to store any chunks"
E_NOEMBEDDING == "Failed to generate embedding"

VARIABLES
    docs,       \* the documents table: id -> row
    chunks,     \* the document_chunks table: set of rows
    reqs,       \* trigger requests received, in order of arrival
    runs,       \* processDocument invocations, in order of start
    unhandled,  \* runs whose rejection no handler caught
    quota,      \* runs that may still be started (bounds the exploration)
    batch,      \* one invocation of storeChunksWithEmbeddings
    call,       \* one invocation of generateEmbedding
    chunker,    \* one application of chunkText
    parser,     \* one application of parseFile and of the chunking after it
    search,     \* one invocation of searchSimilarChunksManual
    deletion    \* one request of the deleteDocument route

\* The services' own state, followed in the specifications of their own.
svc  == <<batch, call, chunker, parser, search, deletion>>
vars == <<docs, chunks, reqs, runs, unhandled, quota, svc>>

\* ------------------------------------------------------------- helpers
Min(a, b) == IF a <= b THEN a ELSE b

RECURSIVE SumSeq(_)
SumSeq(s) == IF s = <<>> THEN 0 ELSE Head(s) + SumSeq(Tail(s))

Range(seq) == {seq[j] : j \in 1..Len(seq)}

\* Texts are sequences of characters; " " stands for any white space.
\* The text from its first character that is not white space.
TrimStart(t) ==
    IF \A p \in 1..Len(t) : t[p] = " " THEN <<>>
    ELSE SubSeq(t, CHOOSE p \in 1..Len(t) :
                      t[p] # " " /\ \A q \in 1..(p - 1) : t[q] = " ",
                Len(t))

\* The text up to its last character that is not white space.
TrimEnd(t) ==
    IF \A p \in 1..Len(t) : t[p] = " " THEN <<>>
    ELSE SubSeq(t, 1, CHOOSE p \in 1..Len(t) :
                         t[p] # " " /\ \A q \in (p + 1)..Len(t) : t[q] = " ")

\* String.prototype.trim
Trim(t) == TrimEnd(TrimStart(t))

\* text.substring(0, n)
Substring0(t, n) == SubSeq(t, 1, Min(n, Len(t)))

\* text.slice(start, end) for 0 <= start
Slice(t, start, end) == SubSeq(t, start + 1, Min(end, Len(t)))

\* ------------------------------------------- repository (part_000)
\* Variant: the update without its .eq('id', documentId) filter.
updateDocumentEveryRow(db, d, updates) ==
    [e \in DOMAIN db |-> [f \in DOMAIN db[e] |->
                            IF f \in DOMAIN updates THEN updates[f] ELSE db[e][f]]]

updateDocument(db, d, updates) ==
    [db EXCEPT ![d] = [f \in DOMAIN db[d] |->
                          IF f \in DOMAIN updates THEN updates[f] ELSE db[d][f]]]

updateProcessingStatus(db, d, status, error, now) ==
    LET updates == [processing_status |-> status, processing_error |-> error]
    IN  updateDocument(db, d,
            IF status = "completed"
            THEN updates @@ [processed_at |-> now]
            ELSE updates)

RECURSIVE OrderByUploadedAt(_, _)
OrderByUploadedAt(db, S) ==
    IF S = {} THEN <<>>
    ELSE LET m == CHOOSE x \in S : \A y \in S : db[x].uploaded_at <= db[y].uploaded_at
         IN  <<m>> \o OrderByUploadedAt(db, S \ {m})

\* Variant: the query has no .limit(10).
getPendingDocumentsNoLimit(db) ==
    OrderByUploadedAt(db, {d \in DOMAIN db : db[d].processing_status = "queued"})

\* Variant: the query has no .eq('processing_status', 'queued').
getPendingDocumentsAnyStatus(db) ==
    LET ordered == OrderByUploadedAt(db, DOMAIN db)
    IN  SubSeq(ordered, 1, Min(PollLimit, Len(ordered)))

getPendingDocuments(db) ==
    LET rows    == {d \in DOMAIN db : db[d].processing_status = "queued"}
        ordered == OrderByUploadedAt(db, rows)
    IN  SubSeq(ordered, 1, Min(PollLimit, Len(ordered)))


\* ------------------------------------------------ trigger routes (server.js)
\* Variant: only the presence of a header is checked.
authenticateWorkerAnyHeader(authHeader) == authHeader # "undefined"

authenticateWorker(authHeader) == authHeader = "Bearer " \o WORKER_SECRET

\* A request as received; code = 0 while no response has been sent.
Request(kind, hdr, d) ==
    [kind |-> kind, hdr |-> hdr, doc |-> d, pc |-> "auth", code |-> 0,
     documentId |-> 0, count |-> -1, ids |-> <<>>, queried |-> FALSE,
     error |-> NULL]

Unauthorized(rq) == [rq EXCEPT !.code = 401, !.error = "Unauthorized", !.pc = "done"]

\* The call processDocument(...).catch(...): the run up to its first await.
\* acked: the trigger's response had been sent when the run was started.
\* handled: a rejection handler is attached to the returned promise.
\* marked: the run's write of 'processing' has been applied.
processDocument(d, rid, acked, handled) ==
    [doc |-> d, req |-> rid, pc |-> "mark", outcome |-> NULL,
     err |-> NULL, failedAt |-> NULL,
     totalPages |-> NoPages, allChunks |-> 0, chunkCount |-> 0,
     steps |-> <<>>, acked |-> acked, handled |-> handled, marked |-> FALSE]

\* Variant: processDocument is called twice.
processDocumentRouteTwice(rq, rid, rs) ==
    LET answered == [rq EXCEPT !.code = 200, !.documentId = rq.doc, !.pc = "done"]
        run      == processDocument(rq.doc, rid, answered.code # 0, TRUE)
    IN  [req |-> answered, runs |-> rs \o <<run, run>>]

\* Variant: processDocument is called before res.json.
processDocumentRouteStartFirst(rq, rid, rs) ==
    LET started == Append(rs, processDocument(rq.doc, rid, rq.code # 0, TRUE))
    IN  [req  |-> [rq EXCEPT !.code = 200, !.documentId = rq.doc, !.pc = "done"],
         runs |-> started]

\* Variant: the promise of processDocument gets no .catch.
processDocumentRouteNoCatch(rq, rid, rs) ==
    LET answered == [rq EXCEPT !.code = 200, !.documentId = rq.doc, !.pc = "done"]
    IN  [req  |-> answered,
         runs |-> Append(rs, processDocument(rq.doc, rid, answered.code # 0, FALSE))]

\* Body of POST /process-document after authentication: respond, then start.
processDocumentRoute(rq, rid, rs) ==
    LET answered == [rq EXCEPT !.code = 200, !.documentId = rq.doc, !.pc = "done"]
    IN  [req  |-> answered,
         runs |-> Append(rs, processDocument(rq.doc, rid, answered.code # 0, TRUE))]

\* Body of POST /poll-pending after getPendingDocuments resolved with pendingDocs.
pollPendingRoute(rq, rid, rs, pendingDocs) ==
    IF Len(pendingDocs) = 0
    THEN [req  |-> [rq EXCEPT !.code = 200, !.count = 0, !.pc = "done"],
          runs |-> rs]
    ELSE LET answered == [rq EXCEPT !.code = 200, !.count = Len(pendingDocs),
                                    !.ids = pendingDocs, !.pc = "done"]
         IN  [req  |-> answered,
              runs |-> rs \o [i \in 1..Len(pendingDocs) |->
                                processDocument(pendingDocs[i], rid,
                                                answered.code # 0, TRUE)]]

\* POST /process-document
ProcessDocumentRoute(hdr, d) ==
    /\ Len(reqs) < MaxReqs
    /\ LET rid == Len(reqs) + 1
           rq  == Request("push", hdr, d)
       IN  IF ~authenticateWorker(hdr)
           THEN /\ reqs' = Append(reqs, Unauthorized(rq))
                /\ runs' = runs
           ELSE LET out == processDocumentRoute(rq, rid, runs)
                IN  /\ Len(out.runs) - Len(runs) <= quota
                    /\ reqs' = Append(reqs, out.req)
                    /\ runs' = out.runs
    /\ quota' = quota - (Len(runs') - Len(runs))
    /\ UNCHANGED <<svc, docs, chunks, unhandled>>

\* POST /poll-pending up to the await of getPendingDocuments
PollPendingRoute(hdr) ==
    /\ Len(reqs) < MaxReqs
    /\ LET rq == Request("pull", hdr, 0)
       IN  reqs' = Append(reqs, IF ~authenticateWorker(hdr)
                                THEN Unauthorized(rq)
                                ELSE [rq EXCEPT !.pc = "query", !.queried = TRUE])
    /\ UNCHANGED <<svc, docs, chunks, runs, unhandled, quota>>

\* POST /poll-pending from the settling of getPendingDocuments: with the rows
\* the handler responds and starts the runs; with an error it answers 500.
PollPendingResume(i, ok) ==
    /\ i \in 1..Len(reqs)
    /\ reqs[i].pc = "query"
    /\ IF ok
       THEN LET out == pollPendingRoute(reqs[i], i, runs, getPendingDocuments(docs))
            IN  /\ Len(out.runs) - Len(runs) <= quota
                /\ reqs' = [reqs EXCEPT ![i] = out.req]
                /\ runs' = out.runs
       ELSE /\ reqs' = [reqs EXCEPT ![i] =
                          [@ EXCEPT !.code = 500, !.error = E_DB, !.pc = "done"]]
            /\ runs' = runs
    /\ quota' = quota - (Len(runs') - Len(runs))
    /\ UNCHANGED <<svc, docs, chunks, unhandled>>


\* ------------------------------------------- processDocument (server.js)
\* The fixed order of the pipeline's steps; "fail" is the catch block's write.
PipelineOrder == <<"mark", "fetch", "extract", "pagecheck", "language", "chunk",
                   "chunkcheck", "embed", "countcheck", "complete">>

\* What parseFile can resolve to, as seen by the orchestrator: for each
\* returned page the number of chunks chunkText(page.text, 800, 100) yields
\* (0 for a page of at most 50 characters), and the reported page count.
\* One output per path of lines 92-125: no page (a PDF reporting 0 pages),
\* no chunk, and a chunk (from a PDF of 2 pages whose other slice is blank).
ParseOutputs ==
    {[yields |-> <<>>,  totalPages |-> 0],
     [yields |-> <<0>>, totalPages |-> 1],
     [yields |-> <<1>>, totalPages |-> 2]}

Did(r, step) == [r EXCEPT !.steps = Append(@, step)]

\* Variant: the catch block records a fixed text instead of error.message.
ThrowGeneric(r, step, msg) ==
    [Did(r, step) EXCEPT !.pc = "catch", !.err = "Processing failed", !.failedAt = step]

\* A step throws: control passes to the catch block with the error.
Throw(r, step, msg) ==
    [Did(r, step) EXCEPT !.pc = "catch", !.err = msg, !.failedAt = step]

\* processDocument settles: its local variables are gone.
Settle(r, outcome) ==
    [processDocument(r.doc, r.req, r.acked, r.handled) EXCEPT
        !.pc = "done", !.outcome = outcome, !.marked = r.marked]

SetRun(k, r) == runs' = [runs EXCEPT ![k] = r]

\* await updateProcessingStatus(documentId, 'processing')
MarkProcessing(k, ok) ==
    /\ k \in 1..Len(runs)
    /\ runs[k].pc = "mark"
    /\ IF ok
       THEN /\ docs' = updateProcessingStatus(docs, runs[k].doc, "processing", NULL, k)
            /\ SetRun(k, [Did(runs[k], "mark") EXCEPT !.pc = "fetch", !.marked = TRUE])
       ELSE /\ docs' = docs
            /\ SetRun(k, Throw(runs[k], "mark", E_DB))
    /\ UNCHANGED <<svc, chunks, reqs, unhandled, quota>>

\* await axios.get(cloudinaryUrl, {timeout: 60000})
Fetch(k, ok) ==
    /\ k \in 1..Len(runs)
    /\ runs[k].pc = "fetch"
    /\ SetRun(k, IF ok THEN [Did(runs[k], "fetch") EXCEPT !.pc = "extract"]
                       ELSE Throw(runs[k], "fetch", E_FETCH))
    /\ UNCHANGED <<svc, docs, chunks, reqs, unhandled, quota>>

\* Lines 92-125: page check, language, chunking, chunk check.
afterParse(r, parsed) ==
    LET r1 == Did(r, "extract")
    IN  IF Len(parsed.yields) = 0
        THEN Throw(r1, "pagecheck", E_NOPAGES)
        ELSE LET r2 == Did(Did(Did(r1, "pagecheck"), "language"), "chunk")
                 n  == SumSeq(parsed.yields)
             IN  IF n = 0
                 THEN Throw(r2, "chunkcheck", E_NOCHUNKS)
                 ELSE [Did(r2, "chunkcheck") EXCEPT !.pc = "embed",
                          !.allChunks = n, !.totalPages = parsed.totalPages]

\* await parseFile(...) and the synchronous code up to storeChunksWithEmbeddings
ExtractAndChunk(k, ok, parsed) ==
    /\ k \in 1..Len(runs)
    /\ runs[k].pc = "extract"
    /\ parsed \in ParseOutputs
    /\ SetRun(k, IF ok THEN afterParse(runs[k], parsed)
                       ELSE Throw(runs[k], "extract", E_PARSE))
    /\ UNCHANGED <<svc, docs, chunks, reqs, unhandled, quota>>

\* Variant: the insert reports success without writing a row.
ChunkRowsUnwritten(d, k, embedded) == {}

\* Rows storeChunksWithEmbeddings inserts: one per chunk whose embedding succeeded.
ChunkRows(d, k, embedded) ==
    {[document_id |-> d, chunk_index |-> i, run |-> k] : i \in embedded}

\* Lines 133-137 after storeChunksWithEmbeddings resolved with chunkCount.
afterStore(r, chunkCount) ==
    LET r1 == [Did(r, "embed") EXCEPT !.chunkCount = chunkCount]
    IN  IF chunkCount = 0
        THEN Throw(r1, "countcheck", E_NOSTORE)
        ELSE [Did(r1, "countcheck") EXCEPT !.pc = "complete"]

\* await storeChunksWithEmbeddings(documentId, allChunks), then the count check.
\* embedded: indices of the chunks whose embedding succeeded.
Embed(k, embedded, insertOk) ==
    /\ k \in 1..Len(runs)
    /\ runs[k].pc = "embed"
    /\ embedded \in SUBSET (0..(runs[k].allChunks - 1))
    /\ IF embedded = {}
       THEN /\ chunks' = chunks
            /\ SetRun(k, Throw(runs[k], "embed", E_NOEMBED))
       ELSE IF ~insertOk
       THEN /\ chunks' = chunks
            /\ SetRun(k, Throw(runs[k], "embed", E_DB))
       ELSE /\ chunks' = chunks \cup ChunkRows(runs[k].doc, k, embedded)
            /\ SetRun(k, afterStore(runs[k], Cardinality(embedded)))
    /\ UNCHANGED <<svc, docs, reqs, unhandled, quota>>

\* await updateDocument(documentId, {processing_status: 'completed', ...})
Complete(k, ok) ==
    /\ k \in 1..Len(runs)
    /\ runs[k].pc = "complete"
    /\ IF ok
       THEN /\ docs' = updateDocument(docs, runs[k].doc,
                          [processing_status |-> "completed",
                           total_pages |-> runs[k].totalPages,
                           processed_at |-> k])
            /\ SetRun(k, Settle(runs[k], "completed"))
       ELSE /\ docs' = docs
            /\ SetRun(k, Throw(runs[k], "complete", E_DB))
    /\ UNCHANGED <<svc, chunks, reqs, unhandled, quota>>

\* catch: await updateProcessingStatus(documentId, 'failed', error.message).
\* When this write fails the promise rejects; the trigger's .catch logs it.
Catch(k, ok) ==
    /\ k \in 1..Len(runs)
    /\ runs[k].pc = "catch"
    /\ IF ok
       THEN /\ docs' = updateProcessingStatus(docs, runs[k].doc, "failed", runs[k].err, k)
            /\ SetRun(k, Settle(runs[k], "failed"))
            /\ unhandled' = unhandled
       ELSE /\ docs' = docs
            /\ SetRun(k, Settle(runs[k], "rejected"))
            /\ unhandled' = IF runs[k].handled THEN unhandled ELSE unhandled \cup {k}
    /\ UNCHANGED <<svc, chunks, reqs, quota>>

\* ------------------------------- generateEmbedding (embeddingService.js)
\* What embeddings.create settles with.  thrown: the call rejects with an
\* error of this status / code / message.  Otherwise the response's
\* data[0].embedding is absent (hasData = FALSE), or is not an array, or is
\* the array items.  A valid vector is stood for by <<input>>: the vector the
\* provider computes from that input.
Response(thrown, status, code, message, hasData, isArray, items) ==
    [thrown |-> thrown, status |-> status, code |-> code, message |-> message,
     hasData |-> hasData, isArray |-> isArray, items |-> items]

Embedding(input) == <<input>>

ProviderResponses(input) ==
    {Response(FALSE, 200, NULL, NULL, TRUE, TRUE, Embedding(input)),
     Response(FALSE, 200, NULL, NULL, FALSE, FALSE, <<>>),
     Response(FALSE, 200, NULL, NULL, TRUE, TRUE, <<>>),
     Response(FALSE, 200, NULL, NULL, TRUE, FALSE, <<>>),
     Response(TRUE, 429, NULL, "429 Too Many Requests", FALSE, FALSE, <<>>),
     Response(TRUE, 0, "rate_limit_exceeded", "Rate limit reached", FALSE, FALSE, <<>>),
     Response(TRUE, 500, NULL, "500 Internal Server Error", FALSE, FALSE, <<>>),
     Response(TRUE, 0, "ETIMEDOUT", "Connection error", FALSE, FALSE, <<>>)}

\* An Error created with new Error(message): no status, no code.
Error(message) == Response(TRUE, 0, NULL, message, FALSE, FALSE, <<>>)

\* One invocation (with its recursive retries) of generateEmbedding.
\* providerCalls, waits and log record what it did: the calls of
\* embeddings.create, the delays slept, the responses received.
EmbeddingCall(text) ==
    [pc |-> "start", text |-> text, retries |-> DefaultRetries, input |-> <<>>,
     providerCalls |-> 0, waits |-> <<>>, log |-> <<>>,
     result |-> <<>>, error |-> NULL]

\* Variant: the catch block retries whatever the error is.
catchBlockAnyError(c, error) ==
    IF c.retries > 0
    THEN [c EXCEPT !.pc = "sleep", !.waits = Append(@, (4 - c.retries) * BackoffUnit)]
    ELSE [c EXCEPT !.pc = "rejected",
                   !.error = "Failed to generate embedding: " \o error.message]

\* Lines 63-74: the catch block.
catchBlock(c, error) ==
    IF (error.status = 429 \/ error.code = "rate_limit_exceeded") /\ c.retries > 0
    THEN [c EXCEPT !.pc = "sleep", !.waits = Append(@, (4 - c.retries) * BackoffUnit)]
    ELSE [c EXCEPT !.pc = "rejected",
                   !.error = "Failed to generate embedding: " \o error.message]

\* Variant: without the test of lines 18-20, an empty text goes to the provider.
generateEmbeddingUnchecked(c, retries) ==
    [c EXCEPT !.retries = retries,
              !.pc = "provider",
              !.input = IF Len(c.text) > MaxLength
                        THEN Substring0(c.text, MaxLength)
                        ELSE Trim(c.text),
              !.providerCalls = @ + 1]

\* Lines 17-47: generateEmbedding(text, retries) up to the provider call.
generateEmbedding(c, retries) ==
    LET c1 == [c EXCEPT !.retries = retries]
    IN  IF Len(c.text) = 0 \/ Len(Trim(c.text)) = 0
        THEN catchBlock(c1, Error("Text cannot be empty"))
        ELSE [c1 EXCEPT !.pc = "provider",
                        !.input = IF Len(c.text) > MaxLength
                                  THEN Substring0(c.text, MaxLength)
                                  ELSE Trim(c.text),
                        !.providerCalls = @ + 1]

\* Lines 49-61 and the catch block: from the settling of embeddings.create.
afterResponse(c, response) ==
    LET c1 == [c EXCEPT !.log = Append(@, response)]
    IN  IF response.thrown
        THEN catchBlock(c1, response)
        ELSE IF ~response.hasData
        THEN catchBlock(c1, Error("Invalid embedding response from Azure"))
        ELSE IF ~response.isArray \/ Len(response.items) = 0
        THEN catchBlock(c1, Error("Invalid embedding: expected array"))
        ELSE [c1 EXCEPT !.pc = "resolved", !.result = response.items]

GenerateEmbedding ==
    /\ call.pc = "start"
    /\ call' = generateEmbedding(call, call.retries)
    /\ UNCHANGED <<docs, chunks, reqs, runs, unhandled, quota, batch, chunker, parser, search, deletion>>

ProviderResponds(response) ==
    /\ call.pc = "provider"
    /\ response \in ProviderResponses(call.input)
    /\ call' = afterResponse(call, response)
    /\ UNCHANGED <<docs, chunks, reqs, runs, unhandled, quota, batch, chunker, parser, search, deletion>>

\* The delay has elapsed: return generateEmbedding(text, retries - 1).
BackoffEnds ==
    /\ call.pc = "sleep"
    /\ call' = generateEmbedding(call, call.retries - 1)
    /\ UNCHANGED <<docs, chunks, reqs, runs, unhandled, quota, batch, chunker, parser, search, deletion>>


\* ----------------------- storeChunksWithEmbeddings (embeddingService.js)
\* One invocation.  list: the chunks argument (position j is list[j + 1]);
\* i: the loop variable; calls[j]: the promise of chunk j's callback, "idle"
\* before batch.map reaches it, "calling" while generateEmbedding awaits the
\* provider, "backoff" while it sleeps before a retry, then "ok" (the
\* callback returned a row) or "null".  started, groups, pauses and writes
\* record what the invocation did: the generateEmbedding calls made, the
\* values of i at which a batch was mapped, the delays slept, the bulk
\* inserts issued.
StoreCall(documentId, list) ==
    [pc |-> "call", documentId |-> documentId, list |-> list, i |-> 0,
     calls |-> [j \in 0..(Len(list) - 1) |-> "idle"],
     chunksWithEmbeddings |-> <<>>, started |-> {}, groups |-> <<>>,
     pauses |-> <<>>, writes |-> 0, returned |-> -1, error |-> NULL]

\* !chunk.text || chunk.text.trim().length === 0
EmptyText(text) == Len(text) = 0 \/ Len(Trim(text)) = 0

\* The positions of the batch chunks.slice(i, i + batchSize).
BatchOf(b, i) == {j \in 0..(Len(b.list) - 1) : i <= j /\ j < i + BatchSize}

\* What generateEmbedding(text) resolves with when it resolves.
EmbeddingFor(text) ==
    afterResponse(generateEmbedding(EmbeddingCall(text), DefaultRetries),
                  Response(FALSE, 200, NULL, NULL, TRUE, TRUE,
                           Embedding(generateEmbedding(EmbeddingCall(text),
                                                       DefaultRetries).input))).result

\* Variant: every row of a batch carries the embedding of the batch's first chunk.
ChunkRowFirstOfBatch(b, j) ==
    LET chunk == b.list[j + 1]
    IN  [document_id |-> b.documentId,
         text        |-> Substring0(chunk.text, MaxStoredText),
         page_number |-> chunk.pageNumber,
         chunk_index |-> j,
         embedding   |-> EmbeddingFor(b.list[b.i + 1].text),
         language    |-> IF chunk.language = NULL THEN "en" ELSE chunk.language]

\* Lines 128-135: the row the callback of chunk j = i + batchIndex returns.
ChunkRow(b, j) ==
    LET chunk == b.list[j + 1]
    IN  [document_id |-> b.documentId,
         text        |-> Substring0(chunk.text, MaxStoredText),
         page_number |-> chunk.pageNumber,
         chunk_index |-> j,
         embedding   |-> EmbeddingFor(chunk.text),
         language    |-> IF chunk.language = NULL THEN "en" ELSE chunk.language]

\* The rows of the settled batch i, in the order of Promise.all's result,
\* without the nulls.
RECURSIVE ValidResults(_, _, _)
ValidResults(b, i, j) ==
    IF j \notin BatchOf(b, i) THEN <<>>
    ELSE (IF b.calls[j] = "ok" THEN <<ChunkRow(b, j)>> ELSE <<>>)
         \o ValidResults(b, i, j + 1)

\* Lines 101-140: batch.map runs each callback to its first await: an empty
\* chunk returns null at once, any other calls generateEmbedding.
startBatch(b, i) ==
    [b EXCEPT !.pc = "await", !.i = i, !.groups = Append(@, i),
              !.calls = [j \in DOMAIN b.calls |->
                            IF j \in BatchOf(b, i)
                            THEN IF EmptyText(b.list[j + 1].text) THEN "null" ELSE "calling"
                            ELSE b.calls[j]],
              !.started = @ \cup {j \in BatchOf(b, i) : ~EmptyText(b.list[j + 1].text)}]

\* Lines 87-101: the call, up to the first await.
storeChunksWithEmbeddings(b) ==
    IF Len(b.list) = 0
    THEN [b EXCEPT !.pc = "rejected", !.error = "No chunks to process"]
    ELSE startBatch(b, 0)

\* Variant: a batch with a null result aborts the operation.
afterBatchAbortOnNull(b) ==
    LET valid == ValidResults(b, b.i, b.i)
        all   == b.chunksWithEmbeddings \o valid
    IN  IF Len(valid) < Cardinality(BatchOf(b, b.i))
        THEN [b EXCEPT !.pc = "rejected", !.error = E_NOEMBED]
        ELSE IF b.i + BatchSize < Len(b.list)
        THEN [b EXCEPT !.pc = "pause", !.chunksWithEmbeddings = all,
                       !.pauses = Append(@, BatchPause)]
        ELSE [b EXCEPT !.pc = "insert", !.chunksWithEmbeddings = all,
                       !.writes = @ + 1]

\* Variant: the pause is skipped and the next batch is mapped at once.
afterBatchNoPause(b) ==
    LET all == b.chunksWithEmbeddings \o ValidResults(b, b.i, b.i)
        b1  == [b EXCEPT !.chunksWithEmbeddings = all]
    IN  IF b.i + BatchSize < Len(b.list)
        THEN startBatch(b1, b.i + BatchSize)
        ELSE IF Len(all) = 0
        THEN [b1 EXCEPT !.pc = "rejected", !.error = E_NOEMBED]
        ELSE [b1 EXCEPT !.pc = "insert", !.writes = @ + 1]

\* Lines 142-165: Promise.all has resolved.  The valid rows are kept; then
\* either the pause before the next batch begins, or the loop is over and
\* the rows are inserted, unless there is none.
afterBatch(b) ==
    LET all == b.chunksWithEmbeddings \o ValidResults(b, b.i, b.i)
        b1  == [b EXCEPT !.chunksWithEmbeddings = all]
    IN  IF b.i + BatchSize < Len(b.list)
        THEN [b1 EXCEPT !.pc = "pause", !.pauses = Append(@, BatchPause)]
        ELSE IF Len(all) = 0
        THEN [b1 EXCEPT !.pc = "rejected", !.error = E_NOEMBED]
        ELSE [b1 EXCEPT !.pc = "insert", !.writes = @ + 1]

StoreChunksWithEmbeddings ==
    /\ batch.pc = "call"
    /\ batch' = storeChunksWithEmbeddings(batch)
    /\ UNCHANGED <<docs, chunks, reqs, runs, unhandled, quota, call, chunker, parser, search, deletion>>

\* generateEmbedding of chunk j resolves (the callback returns its row) or
\* rejects (the callback's catch returns null).
CallSettles(j, ok) ==
    /\ batch.pc = "await"
    /\ j \in DOMAIN batch.calls
    /\ batch.calls[j] = "calling"
    /\ batch' = [batch EXCEPT !.calls[j] =
                    IF ok /\ Len(EmbeddingFor(batch.list[j + 1].text)) > 0
                    THEN "ok" ELSE "null"]
    /\ UNCHANGED <<docs, chunks, reqs, runs, unhandled, quota, call, chunker, parser, search, deletion>>

\* generateEmbedding of chunk j is rate limited and sleeps before its retry.
CallBacksOff(j) ==
    /\ batch.pc = "await"
    /\ j \in DOMAIN batch.calls
    /\ batch.calls[j] = "calling"
    /\ batch' = [batch EXCEPT !.calls[j] = "backoff"]
    /\ UNCHANGED <<docs, chunks, reqs, runs, unhandled, quota, call, chunker, parser, search, deletion>>

\* The retry of chunk j calls the provider again.
CallRetries(j) ==
    /\ batch.pc = "await"
    /\ j \in DOMAIN batch.calls
    /\ batch.calls[j] = "backoff"
    /\ batch' = [batch EXCEPT !.calls[j] = "calling"]
    /\ UNCHANGED <<docs, chunks, reqs, runs, unhandled, quota, call, chunker, parser, search, deletion>>

\* Promise.all(batchPromises) resolves once every callback has returned.
BatchSettles ==
    /\ batch.pc = "await"
    /\ \A j \in BatchOf(batch, batch.i) : batch.calls[j] \in {"ok", "null"}
    /\ batch' = afterBatch(batch)
    /\ UNCHANGED <<docs, chunks, reqs, runs, unhandled, quota, call, chunker, parser, search, deletion>>

\* The pause is over: the loop maps the next batch.
PauseEnds ==
    /\ batch.pc = "pause"
    /\ batch' = startBatch(batch, batch.i + BatchSize)
    /\ UNCHANGED <<docs, chunks, reqs, runs, unhandled, quota, call, chunker, parser, search, deletion>>

\* Lines 163-173: the insert settles.
InsertSettles(ok) ==
    /\ batch.pc = "insert"
    /\ IF ok
       THEN /\ chunks' = chunks \cup Range(batch.chunksWithEmbeddings)
            /\ batch' = [batch EXCEPT !.pc = "resolved",
                                      !.returned = Len(batch.chunksWithEmbeddings)]
       ELSE /\ chunks' = chunks
            /\ batch' = [batch EXCEPT !.pc = "rejected", !.error = E_DB]
    /\ UNCHANGED <<docs, reqs, runs, unhandled, quota, call, chunker, parser, search, deletion>>


\* ------------------------------------- chunkText (fileparsingService.js)
\* Variant: the cursor advances by chunkSize, without the overlap.
RECURSIVE chunkTextLoopNoOverlap(_, _, _, _, _)
chunkTextLoopNoOverlap(text, chunkSize, overlap, start, acc) ==
    IF ~(start < Len(text)) THEN acc
    ELSE LET end   == start + chunkSize
             chunk == Trim(Slice(text, start, end))
         IN  chunkTextLoopNoOverlap(text, chunkSize, overlap, end,
                 IF Len(chunk) > MinChunkLength THEN Append(acc, chunk) ELSE acc)

\* Lines 307-316: the while loop, from the cursor start with the chunks acc.
RECURSIVE chunkTextLoop(_, _, _, _, _)
chunkTextLoop(text, chunkSize, overlap, start, acc) ==
    IF ~(start < Len(text)) THEN acc
    ELSE LET end   == start + chunkSize
             chunk == Trim(Slice(text, start, end))
         IN  chunkTextLoop(text, chunkSize, overlap, end - overlap,
                 IF Len(chunk) > MinChunkLength THEN Append(acc, chunk) ELSE acc)

chunkText(text, chunkSize, overlap) == chunkTextLoop(text, chunkSize, overlap, 0, <<>>)

\* One application of chunkText.
ChunkText ==
    /\ chunker.pc = "call"
    /\ chunker' = [chunker EXCEPT
                      !.pc = "returned",
                      !.chunks = chunkText(chunker.text, chunker.chunkSize,
                                           chunker.overlap)]
    /\ UNCHANGED <<docs, chunks, reqs, runs, unhandled, quota, batch, call, parser, search, deletion>>

\* ------------------- chunkText, one loop iteration at a time (303-319)
\* Variant: start = end, the cursor skips the overlap.
chunkTextIterationNoOverlap(c) ==
    LET end   == c.start + c.chunkSize
        chunk == Trim(Slice(c.text, c.start, end))
    IN  [c EXCEPT !.start = end,
                  !.chunks = IF Len(chunk) > MinChunkLength THEN Append(@, chunk) ELSE @,
                  !.iterations = @ + 1]

\* Lines 308-315: the body of while (start < text.length).
chunkTextIteration(c) ==
    LET end   == c.start + c.chunkSize
        chunk == Trim(Slice(c.text, c.start, end))
    IN  [c EXCEPT !.start = end - c.overlap,
                  !.chunks = IF Len(chunk) > MinChunkLength THEN Append(@, chunk) ELSE @,
                  !.iterations = @ + 1]

\* The loop condition holds: one iteration.
ChunkTextIterates ==
    /\ chunker.pc = "loop"
    /\ chunker.start < Len(chunker.text)
    /\ chunker' = chunkTextIteration(chunker)
    /\ UNCHANGED <<docs, chunks, reqs, runs, unhandled, quota, batch, call, parser, search, deletion>>

\* The loop condition fails: return chunks.
ChunkTextReturns ==
    /\ chunker.pc = "loop"
    /\ ~(chunker.start < Len(chunker.text))
    /\ chunker' = [chunker EXCEPT !.pc = "returned"]
    /\ UNCHANGED <<docs, chunks, reqs, runs, unhandled, quota, batch, call, parser, search, deletion>>

\* --------------------------------- the chunking loop (server.js 104-125)
\* for (const page of pages): a blank page is skipped, any other is chunked.
RECURSIVE createChunks(_, _)
createChunks(pages, language) ==
    IF pages = <<>> THEN <<>>
    ELSE LET page == Head(pages)
             pageChunks == IF Len(page.text) = 0 \/ Len(Trim(page.text)) = 0
                           THEN <<>>
                           ELSE chunkText(page.text, ChunkSize, ChunkOverlap)
         IN  [c \in 1..Len(pageChunks) |->
                 [text |-> pageChunks[c], pageNumber |-> page.pageNumber,
                  language |-> language]]
             \o createChunks(Tail(pages), language)

\* Lines 104-125 on the pages parseFile returned.
CreateChunks ==
    /\ chunker.pc = "pages"
    /\ LET allChunks == createChunks(chunker.pages, "en")
       IN  chunker' = [chunker EXCEPT
                          !.pc = IF Len(allChunks) = 0 THEN "thrown" ELSE "chunked",
                          !.error = IF Len(allChunks) = 0 THEN E_NOCHUNKS ELSE NULL,
                          !.allChunks = allChunks]
    /\ UNCHANGED <<docs, chunks, reqs, runs, unhandled, quota, batch, call, parser, search, deletion>>


\* ------------------------------------- parsers (fileparsingService.js)
\* What a parser resolves with, or the error it rejects with.
Resolves(text, pages, totalPages) ==
    [thrown |-> FALSE, error |-> NULL, text |-> text, pages |-> pages,
     totalPages |-> totalPages]

Rejects(message) ==
    [thrown |-> TRUE, error |-> message, text |-> <<>>, pages |-> <<>>,
     totalPages |-> 0]

\* catch (error) { throw new Error(`${prefix}${error.message}`) }
Wrapped(prefix, r) == IF r.thrown THEN Rejects(prefix \o r.error) ELSE r

\* !text || text.trim().length === 0
Blank(text) == Len(text) = 0 \/ Len(Trim(text)) = 0

\* Lines 277-291: the while loop of splitTextIntoPages.
RECURSIVE splitLoop(_, _, _, _, _)
splitLoop(text, charsPerPage, start, pageNumber, pages) ==
    IF ~(start < Len(text)) THEN pages
    ELSE LET end      == start + charsPerPage
             pageText == Trim(Slice(text, start, end))
         IN  IF Len(pageText) > 0
             THEN splitLoop(text, charsPerPage, end, pageNumber + 1,
                      Append(pages, [pageNumber |-> pageNumber, text |-> pageText]))
             ELSE splitLoop(text, charsPerPage, end, pageNumber, pages)

splitTextIntoPages(text, charsPerPage) == splitLoop(text, charsPerPage, 0, 1, <<>>)

\* ------------- splitTextIntoPages, one loop iteration at a time (273-294)
\* Lines 274-275: const pages = []; let start = 0; let pageNumber = 1.
SplitCall(text, charsPerPage) ==
    [pc |-> "split", text |-> text, charsPerPage |-> charsPerPage,
     start |-> 0, pageNumber |-> 1, pages |-> <<>>, iterations |-> 0]

\* Variant: pageNumber++ outside the if, every window counts.
splitIterationCountsWindows(s) ==
    LET end      == s.start + s.charsPerPage
        pageText == Trim(Slice(s.text, s.start, end))
    IN  [s EXCEPT !.pages = IF Len(pageText) > 0
                            THEN Append(@, [pageNumber |-> s.pageNumber,
                                            text |-> pageText])
                            ELSE @,
                  !.pageNumber = @ + 1,
                  !.start = end,
                  !.iterations = @ + 1]

\* Lines 278-290: the body of while (start < text.length).
splitIteration(s) ==
    LET end      == s.start + s.charsPerPage
        pageText == Trim(Slice(s.text, s.start, end))
    IN  [s EXCEPT !.pages = IF Len(pageText) > 0
                            THEN Append(@, [pageNumber |-> s.pageNumber,
                                            text |-> pageText])
                            ELSE @,
                  !.pageNumber = IF Len(pageText) > 0 THEN @ + 1 ELSE @,
                  !.start = end,
                  !.iterations = @ + 1]

\* The loop condition holds: one iteration.
SplitIterates ==
    /\ parser.pc = "split"
    /\ parser.start < Len(parser.text)
    /\ parser' = splitIteration(parser)
    /\ UNCHANGED <<docs, chunks, reqs, runs, unhandled, quota, batch, call, chunker, search, deletion>>

\* The loop condition fails: return pages.
SplitReturns ==
    /\ parser.pc = "split"
    /\ ~(parser.start < Len(parser.text))
    /\ parser' = [parser EXCEPT !.pc = "returned"]
    /\ UNCHANGED <<docs, chunks, reqs, runs, unhandled, quota, batch, call, chunker, search, deletion>>

\* ------------------------------------------- double-precision arithmetic
\* parsePDF computes its slice bounds in IEEE 754 doubles:
\*   textPerPage = text.length / totalPages          (line 27)
\*   Math.floor(i * textPerPage)                     (lines 31-32)
\* A positive double is modelled as [k, limbs]: the integer
\* limbs[0] + limbs[1] * LimbBase + ... + limbs[7] * LimbBase^7 scaled by
\* 2^-k.  Every operation rounds to Significand bits, to nearest, ties to
\* even, as the language's Number type does.
LimbBase == 256
Significand == 53
Limbs == 0..7

Pow2(k) == 2 ^ k

\* 2^k modulo m, by repeated squaring.
RECURSIVE PowMod(_, _)
PowMod(k, m) ==
    IF k = 0 THEN 1 % m
    ELSE LET h == PowMod(k \div 2, m)
         IN  (((h * h) % m) * (IF k % 2 = 1 THEN 2 ELSE 1)) % m

\* floor(x * 2^sh) modulo m.
ShiftMod(x, sh, m) ==
    IF sh >= 0 THEN ((x % m) * PowMod(sh, m)) % m
    ELSE (x \div Pow2(-sh)) % m

\* The exponent e of the quotient: 2^e <= length / totalPages < 2^(e+1).
Exponent(length, totalPages) ==
    CHOOSE e \in -12..12 :
        IF e >= 0
        THEN /\ totalPages * Pow2(e) <= length
             /\ length < totalPages * Pow2(e + 1)
        ELSE /\ totalPages <= length * Pow2(-e)
             /\ length * Pow2(-e) < 2 * totalPages

\* limbs + 1.
Increment(limbs) ==
    [j \in Limbs |->
        IF \A h \in 0..(j - 1) : limbs[h] = LimbBase - 1
        THEN (limbs[j] + 1) % LimbBase ELSE limbs[j]]

\* length / totalPages, rounded to a double (both positive integers).
Divide(length, totalPages) ==
    LET k     == (Significand - 1) - Exponent(length, totalPages)
        trunc == [j \in Limbs |->
                    ShiftMod(length, k - 8 * j, LimbBase * totalPages)
                        \div totalPages]
        rem   == ((length % totalPages) * PowMod(k, totalPages)) % totalPages
        up    == \/ 2 * rem > totalPages
                 \/ 2 * rem = totalPages /\ trunc[0] % 2 = 1
    IN  [k |-> k, limbs |-> IF up THEN Increment(trunc) ELSE trunc]

\* The carry into limb j of the product limbs * i.
RECURSIVE Carry(_, _, _)
Carry(limbs, i, j) ==
    IF j = 0 THEN 0
    ELSE (limbs[j - 1] * i + Carry(limbs, i, j - 1)) \div LimbBase

\* The number of significant bits of a positive integer given by its limbs.
BitLength(limbs) ==
    LET top == CHOOSE j \in Limbs :
                   /\ limbs[j] # 0
                   /\ \A h \in Limbs : h > j => limbs[h] = 0
        b   == CHOOSE n \in 1..8 :
                   Pow2(n - 1) <= limbs[top] /\ limbs[top] < Pow2(n)
    IN  8 * top + b

\* i * d for an integer 0 <= i < 128, rounded to a double.
Times(i, d) ==
    LET exact == [j \in Limbs |->
                    (d.limbs[j] * i + Carry(d.limbs, i, j)) % LimbBase]
    IN  IF i = 0 THEN [k |-> d.k, limbs |-> [j \in Limbs |-> 0]]
        ELSE IF BitLength(exact) <= Significand
             THEN [k |-> d.k, limbs |-> exact]
        ELSE LET drop    == BitLength(exact) - Significand
                 low     == exact[0] % Pow2(drop)
                 half    == Pow2(drop - 1)
                 kept    == [exact EXCEPT ![0] = exact[0] - low]
                 up      == \/ low > half
                            \/ low = half /\ (exact[0] \div Pow2(drop)) % 2 = 1
                 t       == kept[0] + Pow2(drop)
             IN  [k |-> d.k,
                  limbs |->
                     IF ~up THEN kept
                     ELSE IF t < LimbBase THEN [kept EXCEPT ![0] = t]
                     ELSE [j \in Limbs |->
                             IF j = 0 THEN t - LimbBase
                             ELSE IF \A h \in 1..(j - 1) :
                                         kept[h] = LimbBase - 1
                                  THEN (kept[j] + 1) % LimbBase
                                  ELSE kept[j]]]

\* Math.floor of a double below 2^24.
Floor(d) ==
    LET q    == d.k \div 8
        high == SumSeq([j \in 1..(8 - q) |->
                    d.limbs[q + j - 1] * (LimbBase ^ (j - 1))])
    IN  high \div Pow2(d.k % 8)

\* Lines 27-41: the slices of a PDF's text, one per reported page, with the
\* bounds the double arithmetic yields.
RECURSIVE pdfLoop(_, _, _, _)
pdfLoop(text, totalPages, i, pages) ==
    IF ~(i < totalPages) THEN pages
    ELSE LET textPerPage == Divide(Len(text), totalPages)
             start       == Floor(Times(i, textPerPage))
             end         == Floor(Times(i + 1, textPerPage))
             pageText    == Trim(Slice(text, start, end))
         IN  pdfLoop(text, totalPages, i + 1,
                 IF Len(pageText) > 0
                 THEN Append(pages, [pageNumber |-> i + 1, text |-> pageText])
                 ELSE pages)

\* file.libraryError: the rejection of the parsing library, if it rejects.
parsePDF(file) ==
    Wrapped("Failed to parse PDF: ",
        IF file.libraryError # NULL THEN Rejects(file.libraryError)
        ELSE IF Blank(file.text) THEN Rejects("PDF contains no extractable text")
        ELSE Resolves(Trim(file.text), pdfLoop(file.text, file.numpages, 0, <<>>),
                      file.numpages))

parseWord(file) ==
    Wrapped("Failed to parse Word document: ",
        IF file.libraryError # NULL THEN Rejects(file.libraryError)
        ELSE IF Blank(file.text) THEN Rejects("Word document contains no extractable text")
        ELSE LET pseudoPages == splitTextIntoPages(file.text, CharsPerPage)
             IN  Resolves(Trim(file.text), pseudoPages, Len(pseudoPages)))

\* `Sheet: ${sheetName}\n${csv}`; a line break is white space.
SheetText(sheet) == <<"S", "h", "e", "e", "t", ":", " ">> \o sheet.name \o <<" ">> \o sheet.csv

\* Lines 101-118: forEach over the sheets, index counting from 0.
RECURSIVE sheetLoop(_, _, _)
sheetLoop(sheets, index, pages) ==
    IF ~(index < Len(sheets)) THEN pages
    ELSE LET sheet == sheets[index + 1]
         IN  sheetLoop(sheets, index + 1,
                 IF Len(sheet.csv) > 0 /\ Len(Trim(sheet.csv)) > 0
                 THEN Append(pages, [pageNumber |-> index + 1,
                                     text |-> SheetText(sheet),
                                     sheetName |-> sheet.name])
                 ELSE pages)

\* allText.join('\n\n') over the pushed sheet texts
RECURSIVE Join(_)
Join(pages) ==
    IF pages = <<>> THEN <<>>
    ELSE IF Len(pages) = 1 THEN pages[1].text
    ELSE pages[1].text \o <<" ", " ">> \o Join(Tail(pages))

parseExcel(file) ==
    Wrapped("Failed to parse Excel file: ",
        IF file.libraryError # NULL THEN Rejects(file.libraryError)
        ELSE LET pages        == sheetLoop(file.sheets, 0, <<>>)
                 combinedText == Join(pages)
             IN  IF Blank(combinedText)
                 THEN Rejects("Excel file contains no extractable data")
                 ELSE Resolves(Trim(combinedText), pages, Len(pages)))

parseImage(file) ==
    Wrapped("Failed to parse image: ",
        IF file.libraryError # NULL THEN Rejects(file.libraryError)
        ELSE IF Blank(file.text) THEN Rejects("Image contains no recognizable text")
        ELSE Resolves(Trim(file.text),
                      <<[pageNumber |-> 1, text |-> Trim(file.text)]>>, 1))

parseText(file) ==
    Wrapped("Failed to parse text file: ",
        IF Blank(file.text) THEN Rejects("Text file is empty")
        ELSE LET pseudoPages == splitTextIntoPages(file.text, CharsPerPage)
             IN  Resolves(Trim(file.text), pseudoPages, Len(pseudoPages)))

\* fileType.toLowerCase(), on the file types used here
ToLowerCase(s) ==
    CASE s = "PDF" -> "pdf"
      [] s = "TXT" -> "txt"
      [] OTHER -> s

\* Lines 217-249: the switch on the lower-cased file type.
parseFile(file) ==
    LET t == ToLowerCase(file.fileType)
    IN  CASE t = "pdf" -> parsePDF(file)
          [] t \in {"doc", "docx"} -> parseWord(file)
          [] t \in {"xls", "xlsx"} -> parseExcel(file)
          [] t \in {"png", "jpg", "jpeg", "gif"} -> parseImage(file)
          [] t = "txt" -> parseText(file)
          [] OTHER -> Rejects("Unsupported file type: " \o file.fileType)

\* ------------------------------------ detectLanguage (middlewares/upload.js)
\* franc's ISO 639-3 codes and the ISO 639-1 codes they are mapped to.
LANGUAGE_MAP ==
    "eng" :> "en" @@ "spa" :> "es" @@ "fra" :> "fr" @@ "deu" :> "de" @@
    "cmn" :> "zh" @@ "jpn" :> "ja" @@ "por" :> "pt" @@ "ita" :> "it" @@
    "rus" :> "ru" @@ "ara" :> "ar" @@ "hin" :> "hi" @@ "tam" :> "ta" @@
    "ben" :> "bn" @@ "sin" :> "si" @@ "urd" :> "ur" @@ "nep" :> "ne" @@
    "div" :> "dv" @@ "msa" :> "ms" @@ "ind" :> "id" @@ "tgl" :> "tl" @@
    "tha" :> "th" @@ "vie" :> "vi" @@ "khm" :> "km" @@ "mya" :> "my" @@
    "kor" :> "ko" @@ "nld" :> "nl" @@ "pol" :> "pl" @@ "tur" :> "tr" @@
    "swe" :> "sv" @@ "dan" :> "da" @@ "fin" :> "fi" @@ "nor" :> "no" @@
    "ces" :> "cs" @@ "hun" :> "hu" @@ "ron" :> "ro" @@ "ukr" :> "uk" @@
    "heb" :> "he" @@ "ell" :> "el"

\* What franc(text) can return here: undetermined, languages of the table,
\* a language outside it (Latin), or an exception.
FrancOutputs == {"und", "eng", "fra", "tam", "lat", "throws"}

\* Lines 159-186; detected is what franc(text) returns (or that it throws).
detectLanguage(text, detected) ==
    IF Len(text) = 0 \/ Len(Trim(text)) < MinDetectLength THEN "en"
    ELSE IF detected = "throws" THEN "en"
    ELSE IF detected = "und" THEN "en"
    ELSE IF detected \in DOMAIN LANGUAGE_MAP THEN LANGUAGE_MAP[detected] ELSE "en"

\* ----------------------- extraction and chunking (server.js 88-125)
\* One run's extraction: the file, what franc returns on its text, what
\* parseFile settled with, the texts detectLanguage was called on, the
\* language, the chunks, the error thrown.
Extraction(file, franc) ==
    [pc |-> "extract", file |-> file, franc |-> franc, result |-> Rejects(NULL),
     detections |-> <<>>, language |-> NULL, allChunks |-> <<>>, error |-> NULL]

\* await parseFile(fileBuffer, mimeType, fileType) settles.
ParseFile ==
    /\ parser.pc = "extract"
    /\ LET result == parseFile(parser.file)
       IN  parser' = IF result.thrown
                     THEN [parser EXCEPT !.pc = "catch", !.error = result.error]
                     ELSE [parser EXCEPT !.pc = "parsed", !.result = result]
    /\ UNCHANGED <<docs, chunks, reqs, runs, unhandled, quota, batch, call, chunker, search, deletion>>

\* Variant: the language is detected page by page.
tagAndChunkPerPage(p) ==
    IF Len(p.result.pages) = 0
    THEN [p EXCEPT !.pc = "catch", !.error = E_NOPAGES]
    ELSE LET language  == detectLanguage(p.result.text, p.franc)
             allChunks == createChunks(p.result.pages, language)
         IN  IF Len(allChunks) = 0
             THEN [p EXCEPT !.pc = "catch", !.error = E_NOCHUNKS,
                      !.detections = [k \in 1..Len(p.result.pages) |-> p.result.pages[k].text],
                      !.language = language]
             ELSE [p EXCEPT !.pc = "embed",
                      !.detections = [k \in 1..Len(p.result.pages) |-> p.result.pages[k].text],
                      !.language = language,
                      !.allChunks = [c \in 1..Len(allChunks) |->
                          [allChunks[c] EXCEPT !.language =
                              detectLanguage(allChunks[c].text, p.franc)]]]

\* Lines 92-125: the page check, detectLanguage(text), the chunking loop
\* and the chunk check, up to the call of storeChunksWithEmbeddings.
tagAndChunk(p) ==
    IF Len(p.result.pages) = 0
    THEN [p EXCEPT !.pc = "catch", !.error = E_NOPAGES]
    ELSE LET language  == detectLanguage(p.result.text, p.franc)
             allChunks == createChunks(p.result.pages, language)
         IN  IF Len(allChunks) = 0
             THEN [p EXCEPT !.pc = "catch", !.error = E_NOCHUNKS,
                      !.detections = <<p.result.text>>, !.language = language]
             ELSE [p EXCEPT !.pc = "embed", !.detections = <<p.result.text>>,
                      !.language = language, !.allChunks = allChunks]

TagAndChunk ==
    /\ parser.pc = "parsed"
    /\ parser' = tagAndChunk(parser)
    /\ UNCHANGED <<docs, chunks, reqs, runs, unhandled, quota, batch, call, chunker, search, deletion>>

\* ------------------- searchSimilarChunksManual (embeddingService.js)
\* A similarity is the quotient num / den of two integers, den > 0: the
\* vectors used have whole magnitudes, so the quotient the code computes
\* is this rational number.
Ratio(num, den) == [num |-> num, den |-> den]
Less(x, y) == x.num * y.den < y.num * x.den

\* Math.sqrt on the perfect squares that occur here
Sqrt(n) == CHOOSE r \in 0..n : r * r = n

Returns(value) == [thrown |-> FALSE, message |-> NULL, value |-> value]
Throws(message) == [thrown |-> TRUE, message |-> message, value |-> Ratio(0, 1)]

\* Variant: the vectors are compared over their common prefix.
cosineSimilarityTruncating(vecA, vecB) ==
    LET n          == Min(Len(vecA), Len(vecB))
        dotProduct == SumSeq([i \in 1..n |-> vecA[i] * vecB[i]])
        magnitudeA == Sqrt(SumSeq([i \in 1..n |-> vecA[i] * vecA[i]]))
        magnitudeB == Sqrt(SumSeq([i \in 1..n |-> vecB[i] * vecB[i]]))
    IN  IF magnitudeA = 0 \/ magnitudeB = 0 THEN Returns(Ratio(0, 1))
        ELSE Returns(Ratio(dotProduct, magnitudeA * magnitudeB))

\* Lines 286-300; both arguments are arrays here, never null.
cosineSimilarity(vecA, vecB) ==
    IF Len(vecA) # Len(vecB)
    THEN Throws("Vectors must have the same length")
    ELSE LET dotProduct == SumSeq([i \in 1..Len(vecA) |-> vecA[i] * vecB[i]])
             magnitudeA == Sqrt(SumSeq([i \in 1..Len(vecA) |-> vecA[i] * vecA[i]]))
             magnitudeB == Sqrt(SumSeq([i \in 1..Len(vecA) |-> vecB[i] * vecB[i]]))
         IN  IF magnitudeA = 0 \/ magnitudeB = 0 THEN Returns(Ratio(0, 1))
             ELSE Returns(Ratio(dotProduct, magnitudeA * magnitudeB))

\* The embedding column is NULL or holds the vector as text; JSON.parse
\* reads the text back.
Stored(vector) == [isNull |-> FALSE, json |-> vector]
NoEmbedding == [isNull |-> TRUE, json |-> <<>>]
JSONParse(column) == column.json

\* One invocation of searchSimilarChunksManual(query, documentIds, topK);
\* queryVector: what generateEmbedding(query) resolves with when it does.
SearchCall(queryVector, documentIds, topK) ==
    [pc |-> "call", queryVector |-> queryVector, documentIds |-> documentIds,
     topK |-> topK, queryEmbedding |-> <<>>, data |-> <<>>, results |-> <<>>,
     returned |-> <<>>, error |-> NULL]

\* .in('document_id', documentIds).not('embedding', 'is', null)
SelectChunks(table, documentIds) ==
    {row \in table : row.document_id \in documentIds /\ ~row.embedding.isNull}

\* The orders in which the database can return a set of rows.
Orders(S) == {order \in [1..Cardinality(S) -> S] : Range(order) = S}

\* Lines 255-268: the callback of chunks.map.
SearchResult(queryEmbedding, chunk) ==
    [chunkId    |-> chunk.id,
     documentId |-> chunk.document_id,
     text       |-> chunk.text,
     pageNumber |-> chunk.page_number,
     similarity |-> cosineSimilarity(queryEmbedding, JSONParse(chunk.embedding)).value,
     language   |-> chunk.language]

\* Variant: results.sort((a, b) => a.similarity - b.similarity)
RECURSIVE sortAscending(_)
sortAscending(results) ==
    IF results = <<>> THEN <<>>
    ELSE LET n      == Len(results)
             sorted == sortAscending(SubSeq(results, 1, n - 1))
             after  == {i \in 1..(n - 1) : Less(results[n].similarity, sorted[i].similarity)}
             pos    == IF after = {} THEN n ELSE CHOOSE i \in after : \A j \in after : i <= j
         IN  SubSeq(sorted, 1, pos - 1) \o <<results[n]>> \o SubSeq(sorted, pos, n - 1)

\* results.sort((a, b) => b.similarity - a.similarity): the sort is stable,
\* an element goes behind those that do not compare after it.
RECURSIVE sortBySimilarity(_)
sortBySimilarity(results) ==
    IF results = <<>> THEN <<>>
    ELSE LET n      == Len(results)
             sorted == sortBySimilarity(SubSeq(results, 1, n - 1))
             after  == {i \in 1..(n - 1) : Less(sorted[i].similarity, results[n].similarity)}
             pos    == IF after = {} THEN n ELSE CHOOSE i \in after : \A j \in after : i <= j
         IN  SubSeq(sorted, 1, pos - 1) \o <<results[n]>> \o SubSeq(sorted, pos, n - 1)

\* Lines 250-272 on the rows the select returned.
rankChunks(c, data) ==
    IF Len(data) = 0 THEN [c EXCEPT !.pc = "returned", !.data = data]
    ELSE IF \E j \in 1..Len(data) :
               cosineSimilarity(c.queryEmbedding, JSONParse(data[j].embedding)).thrown
    THEN LET j == CHOOSE j \in 1..Len(data) :
                     /\ cosineSimilarity(c.queryEmbedding, JSONParse(data[j].embedding)).thrown
                     /\ \A h \in 1..(j - 1) :
                           ~cosineSimilarity(c.queryEmbedding, JSONParse(data[h].embedding)).thrown
         IN  [c EXCEPT !.pc = "rejected", !.data = data,
                !.error = cosineSimilarity(c.queryEmbedding,
                                           JSONParse(data[j].embedding)).message]
    ELSE LET results == sortBySimilarity(
                            [j \in 1..Len(data) |-> SearchResult(c.queryEmbedding, data[j])])
         IN  [c EXCEPT !.pc = "returned", !.data = data, !.results = results,
                !.returned = SubSeq(results, 1, Min(c.topK, Len(results)))]

\* The call: runs to await generateEmbedding(query).
SearchSimilarChunksManual ==
    /\ search.pc = "call"
    /\ search' = [search EXCEPT !.pc = "embedding"]
    /\ UNCHANGED <<docs, chunks, reqs, runs, unhandled, quota, batch, call, chunker, parser, deletion>>

\* generateEmbedding(query) settles; the select is issued.
QueryEmbedded(ok) ==
    /\ search.pc = "embedding"
    /\ search' = IF ok
                 THEN [search EXCEPT !.pc = "select", !.queryEmbedding = search.queryVector]
                 ELSE [search EXCEPT !.pc = "rejected", !.error = E_NOEMBEDDING]
    /\ UNCHANGED <<docs, chunks, reqs, runs, unhandled, quota, batch, call, chunker, parser, deletion>>

\* The select settles: with an error, or with the rows in some order.
SelectSettles(ok, data) ==
    /\ search.pc = "select"
    /\ data \in Orders(SelectChunks(chunks, search.documentIds))
    /\ search' = IF ok THEN rankChunks(search, data)
                 ELSE [search EXCEPT !.pc = "rejected", !.error = E_DB]
    /\ UNCHANGED <<docs, chunks, reqs, runs, unhandled, quota, batch, call, chunker, parser, deletion>>

\* --------------------------- deleteDocument (documentController.js)
\* getDocumentById: .eq('id', documentId)
\*                  .or(`user_id.eq.${userId},is_seeded.eq.true`).single()
getDocumentById(db, documentId, userId) ==
    IF documentId \in DOMAIN db
          /\ (db[documentId].user_id = userId \/ db[documentId].is_seeded)
    THEN documentId
    ELSE 0

\* The repository's deleteDocument: .delete().eq('id', documentId).eq('user_id', userId)
deleteDocument(db, documentId, userId) ==
    [d \in {e \in DOMAIN db : ~(e = documentId /\ db[e].user_id = userId)} |-> db[d]]

\* ON DELETE CASCADE of document_chunks.document_id: the chunks of the
\* documents that are left.
Cascade(table, db) == {row \in table : row.document_id \in DOMAIN db}

\* One request DELETE /documents/:id of user userId; files: the ids the
\* object store holds; document: the id getDocumentById found, 0 for none.
DeleteRequest(id, userId, files) ==
    [pc |-> "call", id |-> id, userId |-> userId, files |-> files, document |-> 0,
     destroyed |-> "no", code |-> 0, body |-> NULL]

Respond(r, code, body) == [r EXCEPT !.pc = "done", !.code = code, !.body = body]

\* The handler runs to await getDocumentById(id, userId).
DeleteDocumentRoute ==
    /\ deletion.pc = "call"
    /\ deletion' = [deletion EXCEPT !.pc = "lookup"]
    /\ UNCHANGED <<docs, chunks, reqs, runs, unhandled, quota, batch, call, chunker, parser, search>>

\* getDocumentById settles: 404 for no document, else the object-store
\* deletion is awaited if the document has a cloudinary_id, else the
\* database deletion.
LookupSettles(ok) ==
    /\ deletion.pc = "lookup"
    /\ LET document == getDocumentById(docs, deletion.id, deletion.userId)
       IN  deletion' =
              IF ~ok THEN Respond(deletion, 500, E_DB)
              ELSE IF document = 0 THEN Respond(deletion, 404, "Document not found")
              ELSE IF docs[document].cloudinary_id # NULL
              THEN [deletion EXCEPT !.pc = "destroy", !.document = document]
              ELSE [deletion EXCEPT !.pc = "delete", !.document = document]
    /\ UNCHANGED <<docs, chunks, reqs, runs, unhandled, quota, batch, call, chunker, parser, search>>

\* cloudinary.uploader.destroy settles; its failure is logged and the
\* handler goes on to the database deletion.
DestroySettles(ok) ==
    /\ deletion.pc = "destroy"
    /\ deletion' = IF ok
                   THEN [deletion EXCEPT !.pc = "delete", !.destroyed = "yes",
                            !.files = @ \ {docs[deletion.document].cloudinary_id}]
                   ELSE [deletion EXCEPT !.pc = "delete", !.destroyed = "failed"]
    /\ UNCHANGED <<docs, chunks, reqs, runs, unhandled, quota, batch, call, chunker, parser, search>>

\* The repository's deleteDocument settles and the response is sent.
DeleteSettles(ok) ==
    /\ deletion.pc = "delete"
    /\ IF ok
       THEN /\ docs' = deleteDocument(docs, deletion.id, deletion.userId)
            /\ chunks' = Cascade(chunks, docs')
            /\ deletion' = Respond(deletion, 200, "Document deleted successfully")
       ELSE /\ docs' = docs
            /\ chunks' = chunks
            /\ deletion' = Respond(deletion, 500, E_DB)
    /\ UNCHANGED <<reqs, runs, unhandled, quota, batch, call, chunker, parser, search>>

\* ------------------------------------------------------- specifications
\* No service invocation is followed.
NoService == [pc |-> "none"]
Idle == parser = NoService /\ search = NoService /\ deletion = NoService
Unused == batch = NoService /\ call = NoService /\ chunker = NoService /\ Idle

Row(status, uploaded) ==
    [processing_status |-> status, processing_error |-> NULL,
     processed_at |-> NoTime, total_pages |-> NoPages, uploaded_at |-> uploaded]

\* One document, the unit of the status record: its row as uploadDocument
\* creates it ('pending') or as the poll query expects it ('queued').
Init ==
    /\ \E st \in {"pending", "queued"} : docs = [d \in {1} |-> Row(st, 1)]
    /\ chunks = {}
    /\ reqs = <<>>
    /\ runs = <<>>
    /\ unhandled = {}
    /\ quota = MaxRuns
    /\ Unused

Triggers ==
    \/ \E h \in Headers, d \in DOMAIN docs : ProcessDocumentRoute(h, d)
    \/ \E h \in Headers : PollPendingRoute(h)
    \/ \E i \in 1..Len(reqs), ok \in BOOLEAN : PollPendingResume(i, ok)

Pipeline ==
    \/ \E k \in 1..Len(runs), ok \in BOOLEAN : MarkProcessing(k, ok)
    \/ \E k \in 1..Len(runs), ok \in BOOLEAN : Fetch(k, ok)
    \/ \E k \in 1..Len(runs), ok \in BOOLEAN, p \in ParseOutputs : ExtractAndChunk(k, ok, p)
    \/ \E k \in 1..Len(runs), ok \in BOOLEAN :
          \E e \in SUBSET (0..(runs[k].allChunks - 1)) : Embed(k, e, ok)
    \/ \E k \in 1..Len(runs), ok \in BOOLEAN : Complete(k, ok)
    \/ \E k \in 1..Len(runs), ok \in BOOLEAN : Catch(k, ok)

Next == Triggers \/ Pipeline

Spec == Init /\ [][Next]_vars

\* Runs one after another: a trigger acts only while no run is under way.
NextSeq ==
    \/ (\A k \in 1..Len(runs) : runs[k].pc = "done") /\ Triggers
    \/ Pipeline

SpecSeq == Init /\ [][NextSeq]_vars

\* The poll specification: a table of more rows than the query's limit, of
\* which the q rows of smallest id are queued, and the trigger routes only.
InitPoll ==
    /\ \E q \in {0, 1, PollLimit, PollDocs}, newestFirst \in BOOLEAN, other \in {"pending", "processing"} :
          docs = [d \in 1..PollDocs |->
                    Row(IF d <= q THEN "queued" ELSE other,
                        IF newestFirst THEN PollDocs + 1 - d ELSE d)]
    /\ chunks = {}
    /\ reqs = <<>>
    /\ runs = <<>>
    /\ unhandled = {}
    /\ quota = MaxReqs * PollLimit
    /\ Unused

NextPoll == Triggers

SpecPoll == InitPoll /\ [][NextPoll]_vars

\* ------------------------------- uploadDocument (documentController.js)
\* Lines 46-62 once the file is stored: the row is created in 'pending' and
\* triggerWorker is called without being awaited.  triggerWorker returns at
\* once when RENDER_WORKER_URL is unset and swallows a failed fetch; a fetch
\* that reaches the worker is a later ProcessDocumentRoute for this id.
UploadDocument(d) ==
    /\ d = Cardinality(DOMAIN docs) + 1
    /\ d <= MaxUploads
    /\ docs' = docs @@ (d :> Row("pending", d))
    /\ UNCHANGED <<svc, chunks, reqs, runs, unhandled, quota>>

\* The upload specification: an empty table, uploads and the trigger routes.
InitUpload ==
    /\ docs = <<>>
    /\ chunks = {}
    /\ reqs = <<>>
    /\ runs = <<>>
    /\ unhandled = {}
    /\ quota = MaxReqs * MaxUploads
    /\ Unused

NextUpload ==
    \/ \E d \in 1..MaxUploads : UploadDocument(d)
    \/ Triggers

SpecUpload == InitUpload /\ [][NextUpload]_vars


\* The embedding specification: one call of generateEmbedding on a text
\* that is empty, blank, plain, padded with white space, or over MaxLength.
EmbedTexts ==
    {<<>>, <<" ", " ">>, <<"a", "b">>, <<" ", "a", " ">>,
     [i \in 1..(MaxLength + 1) |-> "a"]}

InitEmbed ==
    /\ docs = <<>>
    /\ chunks = {}
    /\ reqs = <<>>
    /\ runs = <<>>
    /\ unhandled = {}
    /\ quota = 0
    /\ batch = NoService
    /\ chunker = NoService
    /\ Idle
    /\ \E text \in EmbedTexts : call = EmbeddingCall(text)

NextEmbed ==
    \/ GenerateEmbedding
    \/ \E response \in ProviderResponses(call.input) : ProviderResponds(response)
    \/ BackoffEnds

SpecEmbed == InitEmbed /\ [][NextEmbed]_vars

\* The batch specification: one call of storeChunksWithEmbeddings on a
\* list of n chunks of which those at the positions in empty have a blank
\* text: no chunk, one, a full batch, a batch and one more, three batches.
ChunkList(n, empty) ==
    [p \in 1..n |->
        [text       |-> IF (p - 1) \in empty THEN <<" ">> ELSE <<"c", ToString(p - 1)>>,
         pageNumber |-> 1 + ((p - 1) \div 2),
         language   |-> IF p % 2 = 0 THEN "ta" ELSE NULL]]

InitBatch ==
    /\ docs = <<>>
    /\ chunks = {}
    /\ reqs = <<>>
    /\ runs = <<>>
    /\ unhandled = {}
    /\ quota = 0
    /\ call = NoService
    /\ chunker = NoService
    /\ Idle
    /\ \E n \in {0, 1, BatchSize, BatchSize + 1, MaxChunks} :
          \E empty \in {{}, {0}, {1, BatchSize}, 0..(n - 1)} :
             batch = StoreCall(1, ChunkList(n, empty))

NextBatch ==
    \/ StoreChunksWithEmbeddings
    \/ \E j \in DOMAIN batch.calls, ok \in BOOLEAN : CallSettles(j, ok)
    \/ \E j \in DOMAIN batch.calls : CallBacksOff(j)
    \/ \E j \in DOMAIN batch.calls : CallRetries(j)
    \/ BatchSettles
    \/ PauseEnds
    \/ \E ok \in BOOLEAN : InsertSettles(ok)

SpecBatch == InitBatch /\ [][NextBatch]_vars

\* A text of a characters, g white-space characters and b characters.
Letter(p) == <<"a", "b", "c", "d", "e", "f", "g">>[(p % 7) + 1]
Text(a, g, b) == [p \in 1..(a + g + b) |-> IF a < p /\ p <= a + g THEN " " ELSE Letter(p)]

\* The chunker specification: chunkText applied to texts with and without
\* a white-space gap, with the orchestrator's sizes and with smaller ones.
InitChunk ==
    /\ docs = <<>>
    /\ chunks = {}
    /\ reqs = <<>>
    /\ runs = <<>>
    /\ unhandled = {}
    /\ quota = 0
    /\ batch = NoService
    /\ call = NoService
    /\ Idle
    /\ \E sizes \in {<<ChunkSize, ChunkOverlap>>, <<60, 10>>, <<55, 0>>, <<120, 100>>} :
          \E a \in {0, 30, 51, 60}, g \in {0, 5, 30, sizes[1] - 40},
             b \in {0, 40, 51, sizes[1]} :
             chunker = [pc |-> "call", text |-> Text(a, g, b),
                        chunkSize |-> sizes[1], overlap |-> sizes[2],
                        chunks |-> <<>>]

NextChunk == ChunkText

SpecChunk == InitChunk /\ [][NextChunk]_vars

\* The pages specification: the chunking loop on the pages of a parsed
\* document.  A page is blank (an Excel sheet of white space), shorter than
\* the threshold, at it, just over it, a full window, longer, or two short
\* passages 800 white-space characters apart (a text file keeps them).
PageTexts ==
    {Text(0, 3, 0), Text(10, 0, 0), Text(50, 0, 0), Text(51, 0, 0),
     Text(800, 0, 0), Text(801, 0, 0), Text(40, 800, 40), Text(51, 800, 40)}

InitPages ==
    /\ docs = <<>>
    /\ chunks = {}
    /\ reqs = <<>>
    /\ runs = <<>>
    /\ unhandled = {}
    /\ quota = 0
    /\ batch = NoService
    /\ call = NoService
    /\ Idle
    /\ \E n \in 1..MaxPages :
          \E texts \in [1..n -> PageTexts] :
             chunker = [pc |-> "pages",
                        pages |-> [p \in 1..n |-> [pageNumber |-> p, text |-> texts[p]]],
                        allChunks |-> <<>>, error |-> NULL]

NextPages == CreateChunks

SpecPages == InitPages /\ [][NextPages]_vars

\* The extraction specification: parseFile and the chunking after it on one
\* file of each type.  A PDF's text has a blank part at its start, middle or
\* end; a workbook has empty sheets among its sheets; a text is empty, blank,
\* short, one window long, or 6000 characters: full, with few characters in
\* each window of 2000 (Sparse), or with a blank window.
File(fileType, text, numpages, sheets, libraryError) ==
    [fileType |-> fileType, text |-> text, numpages |-> numpages,
     sheets |-> sheets, libraryError |-> libraryError]

Sparse(n, per, w) == [p \in 1..n |-> IF ((p - 1) % w) < per THEN Letter(p) ELSE " "]

PdfTexts == {Text(0, 6, 0), Text(60, 0, 0), Text(60, 60, 0), Text(0, 60, 60),
             Text(60, 60, 60)}

SheetCsvs == {<<>>, Text(0, 2, 0), Text(60, 0, 0)}

PlainTexts ==
    {<<>>, Text(0, 3, 0), Text(5, 0, 0), Text(60, 0, 0), Text(CharsPerPage, 0, 0),
     Text(3 * CharsPerPage, 0, 0), Sparse(3 * CharsPerPage, 10, CharsPerPage),
     Sparse(3 * CharsPerPage, 60, CharsPerPage),
     Text(CharsPerPage, CharsPerPage, CharsPerPage),
     Text(0, CharsPerPage, 2 * CharsPerPage)}

Files ==
    {File("pdf", t, n, <<>>, NULL) :
        t \in PdfTexts, n \in {m \in 0..MaxPdfPages : m = 0 \/ 60 % m = 0}}
    \cup {File("pdf", <<>>, 0, <<>>, "Invalid PDF structure")}
    \cup UNION {{File("xlsx", <<>>, 0,
                      [i \in 1..n |-> [name |-> <<Letter(i)>>, csv |-> csvs[i]]], NULL) :
                    csvs \in [1..n -> SheetCsvs]} : n \in 0..MaxSheets}
    \cup {File(ft, t, 0, <<>>, NULL) : ft \in {"txt", "docx", "TXT"}, t \in PlainTexts}
    \cup {File("png", t, 0, <<>>, NULL) : t \in {Text(0, 2, 0), Text(5, 0, 0), Text(60, 0, 0)}}
    \cup {File("jpg", <<>>, 0, <<>>, "Error attempting to read image.")}
    \cup {File(ft, Text(60, 0, 0), 0, <<>>, NULL) : ft \in {"csv", "pptx", "PDF"}}

InitParse ==
    /\ docs = <<>>
    /\ chunks = {}
    /\ reqs = <<>>
    /\ runs = <<>>
    /\ unhandled = {}
    /\ quota = 0
    /\ batch = NoService
    /\ call = NoService
    /\ chunker = NoService
    /\ search = NoService
    /\ deletion = NoService
    /\ \E file \in Files, franc \in FrancOutputs : parser = Extraction(file, franc)

NextParse ==
    \/ ParseFile
    \/ TagAndChunk

SpecParse == InitParse /\ [][NextParse]_vars

\* The PDF specification: parsePDF applied to texts whose length is not a
\* multiple of the reported page count, dense, with white-space gaps, and
\* ending in white space.
PdfLengths == {15, 30, 61}

SliceTexts ==
    UNION {{Text(n, 0, 0), Sparse(n, 2, 5), Text(n - 1, 1, 0)} : n \in PdfLengths}

InitPdf ==
    /\ docs = <<>>
    /\ chunks = {}
    /\ reqs = <<>>
    /\ runs = <<>>
    /\ unhandled = {}
    /\ quota = 0
    /\ batch = NoService
    /\ call = NoService
    /\ chunker = NoService
    /\ search = NoService
    /\ deletion = NoService
    /\ \E t \in SliceTexts, n \in 1..MaxPdfSlices, franc \in {"eng", "und"} :
           parser = Extraction(File("pdf", t, n, <<>>, NULL), franc)

SpecPdf == InitPdf /\ [][NextParse]_vars

\* The splitter specification: splitTextIntoPages entered with a text and
\* followed iteration by iteration, with windows of SmallWindow characters
\* and of the extractors' 2000, and text and Word files parsed as a whole.
\* The loop is a running computation, so a step that can be taken is taken.
SmallWindow == 4

SplitTexts ==
    {Text(a, g, b) : a \in {0, 3, 4}, g \in {0, 2, 4, 9}, b \in {0, 1, 5}}

SplitFiles ==
    {File("txt", Text(0, CharsPerPage, 5), 0, <<>>, NULL),
     File("docx", Text(5, CharsPerPage, 5), 0, <<>>, NULL),
     File("docx", Text(5, 0, 0), 0, <<>>, NULL)}

InitSplit ==
    /\ docs = <<>>
    /\ chunks = {}
    /\ reqs = <<>>
    /\ runs = <<>>
    /\ unhandled = {}
    /\ quota = 0
    /\ batch = NoService
    /\ call = NoService
    /\ chunker = NoService
    /\ search = NoService
    /\ deletion = NoService
    /\ \/ \E t \in SplitTexts : parser = SplitCall(t, SmallWindow)
       \/ \E file \in SplitFiles : parser = SplitCall(file.text, CharsPerPage)
       \/ \E file \in SplitFiles : parser = Extraction(file, "eng")

NextSplit ==
    \/ SplitIterates
    \/ SplitReturns
    \/ ParseFile
    \/ TagAndChunk

SpecSplit == InitSplit /\ [][NextSplit]_vars /\ WF_vars(NextSplit)

\* The empty-text specification: one call of generateEmbedding on a text
\* that is empty, blank, plain or padded, beside one call of
\* storeChunksWithEmbeddings on one or two chunks of which none, the first
\* or all are blank.  The chunks fit into one batch, so there is no pause
\* between batches.
InitEmpty ==
    /\ docs = <<>>
    /\ chunks = {}
    /\ reqs = <<>>
    /\ runs = <<>>
    /\ unhandled = {}
    /\ quota = 0
    /\ chunker = NoService
    /\ Idle
    /\ \E text \in {t \in EmbedTexts : Len(t) <= MaxLength} :
          call = EmbeddingCall(text)
    /\ \E n \in 1..MaxEmptyChunks :
          \E empty \in {{}, {0}, 0..(n - 1)} :
             batch = StoreCall(1, ChunkList(n, empty))

NextEmpty ==
    \/ NextEmbed
    \/ StoreChunksWithEmbeddings
    \/ \E j \in DOMAIN batch.calls, ok \in BOOLEAN : CallSettles(j, ok)
    \/ \E j \in DOMAIN batch.calls : CallBacksOff(j)
    \/ \E j \in DOMAIN batch.calls : CallRetries(j)
    \/ BatchSettles
    \/ \E ok \in BOOLEAN : InsertSettles(ok)

SpecEmpty == InitEmpty /\ [][NextEmpty]_vars

\* The search specification: one fallback search over a table of stored
\* chunks of documents 1 and 2.  Rows 1 and 8 have the same vector, row 4
\* has no embedding, row 5 the zero vector, row 6 a vector of another length.
StoredChunk(id, documentId, embedding) ==
    [id |-> id, document_id |-> documentId, text |-> <<"a">>, page_number |-> 1,
     language |-> "en", embedding |-> embedding]

StoredChunks ==
    {StoredChunk(1, 1, Stored(<<1, 0>>)), StoredChunk(2, 1, Stored(<<3, 4>>)),
     StoredChunk(3, 2, Stored(<<0, 1>>)), StoredChunk(4, 1, NoEmbedding),
     StoredChunk(5, 2, Stored(<<0, 0>>)), StoredChunk(6, 1, Stored(<<1, 0, 0>>)),
     StoredChunk(7, 2, Stored(<<-1, 0>>)), StoredChunk(8, 2, Stored(<<1, 0>>))}

QueryVectors == {<<1, 0>>, <<3, 4>>, <<0, 0>>}

InitSearch ==
    /\ docs = <<>>
    /\ \E table \in SUBSET StoredChunks :
          Cardinality(table) <= MaxStored /\ chunks = table
    /\ reqs = <<>>
    /\ runs = <<>>
    /\ unhandled = {}
    /\ quota = 0
    /\ batch = NoService
    /\ call = NoService
    /\ chunker = NoService
    /\ parser = NoService
    /\ deletion = NoService
    /\ \E q \in QueryVectors, documentIds \in {{}, {1}, {1, 2}}, topK \in {0, 1, 2, DefaultTopK} :
          search = SearchCall(q, documentIds, topK)

NextSearch ==
    \/ SearchSimilarChunksManual
    \/ \E ok \in BOOLEAN : QueryEmbedded(ok)
    \/ \E ok \in BOOLEAN :
          \E data \in Orders(SelectChunks(chunks, search.documentIds)) : SelectSettles(ok, data)

SpecSearch == InitSearch /\ [][NextSearch]_vars

\* The deletion specification: one deletion request of user u1 or u2 for
\* document 1, 2 or a document that does not exist, on a table of documents
\* owned by u1 or u2, seeded or not, with or without a stored file.
Owned(d, userId, seeded, cloudinaryId) ==
    Row("completed", d) @@
    [user_id |-> userId, is_seeded |-> seeded, cloudinary_id |-> cloudinaryId]

FileOf(d) == <<"file1", "file2", "file3", "file4">>[d]

InitDelete ==
    /\ \E owner \in [1..DeleteDocs -> {"u1", "u2"}],
          seeded \in [1..DeleteDocs -> BOOLEAN],
          stored \in [1..DeleteDocs -> BOOLEAN] :
          /\ docs = [d \in 1..DeleteDocs |->
                        Owned(d, owner[d], seeded[d],
                              IF stored[d] THEN FileOf(d) ELSE NULL)]
          /\ \E id \in 1..(DeleteDocs + 1), userId \in {"u1", "u2"} :
                deletion = DeleteRequest(id, userId,
                                         {FileOf(d) : d \in {e \in 1..DeleteDocs : stored[e]}})
    /\ chunks = {[document_id |-> d, chunk_index |-> i, run |-> 1] :
                    d \in 1..DeleteDocs, i \in 0..1}
    /\ reqs = <<>>
    /\ runs = <<>>
    /\ unhandled = {}
    /\ quota = 0
    /\ batch = NoService
    /\ call = NoService
    /\ chunker = NoService
    /\ parser = NoService
    /\ search = NoService

NextDelete ==
    \/ DeleteDocumentRoute
    \/ \E ok \in BOOLEAN : LookupSettles(ok)
    \/ \E ok \in BOOLEAN : DestroySettles(ok)
    \/ \E ok \in BOOLEAN : DeleteSettles(ok)

SpecDelete == InitDelete /\ [][NextDelete]_vars

\* The two-document specification: documents 1 and 2 are queued, polls
\* pick them up and their runs interleave in every way.
InitTwo ==
    /\ docs = [d \in {1, 2} |-> Row("queued", d)]
    /\ chunks = {}
    /\ reqs = <<>>
    /\ runs = <<>>
    /\ unhandled = {}
    /\ quota = 2
    /\ Unused

NextTwo ==
    \/ PollPendingRoute("Bearer " \o WORKER_SECRET)
    \/ \E i \in 1..Len(reqs), ok \in BOOLEAN : PollPendingResume(i, ok)
    \/ Pipeline

SpecTwo == InitTwo /\ [][NextTwo]_vars

\* The loop specification: chunkText entered with arguments of the chunker
\* specification and followed iteration by iteration; the loop is a
\* running computation, so a step that can be taken is taken.
InitLoop ==
    /\ docs = <<>>
    /\ chunks = {}
    /\ reqs = <<>>
    /\ runs = <<>>
    /\ unhandled = {}
    /\ quota = 0
    /\ batch = NoService
    /\ call = NoService
    /\ Idle
    /\ \E sizes \in {<<ChunkSize, ChunkOverlap>>, <<60, 10>>, <<55, 0>>, <<120, 100>>} :
          \E a \in {0, 30, 51, 60}, g \in {0, 5, 30, sizes[1] - 40},
             b \in {0, 40, 51, sizes[1]} :
             /\ sizes[1] = ChunkSize => a = 60 /\ g \in {0, sizes[1] - 40} /\ b \in {0, sizes[1]}
             /\ chunker = [pc |-> "loop", text |-> Text(a, g, b),
                        chunkSize |-> sizes[1], overlap |-> sizes[2],
                        start |-> 0, chunks |-> <<>>, iterations |-> 0]

NextLoop ==
    \/ ChunkTextIterates
    \/ ChunkTextReturns

SpecLoop == InitLoop /\ [][NextLoop]_vars /\ WF_vars(NextLoop)

TypeOK ==
    /\ \A d \in DOMAIN docs :
          docs[d].processing_status \in {"pending", "queued", "processing", "completed", "failed"}
    /\ \A k \in 1..Len(runs) : runs[k].doc \in DOMAIN docs
    /\ quota >= 0


\* ---------------------------------------------------------------- claims
RunsOn(d)     == {k \in 1..Len(runs) : runs[k].doc = d}
RunsBy(i)     == {k \in 1..Len(runs) : runs[k].req = i}
Settled(k)    == runs[k].pc = "done"
\* Between the run's 'processing' write and its settling.
InProgress(k) == runs[k].marked /\ ~Settled(k)

\* All runs started on d have settled, and one of them wrote a terminal status.
AfterRuns(d) ==
    /\ \A k \in RunsOn(d) : Settled(k)
    /\ \E k \in RunsOn(d) : runs[k].outcome \in {"completed", "failed"}

\* C1: after any sequence of orchestrator runs on a document, its status is
\* one of pending, processing, completed, failed; processed_at is set exactly
\* when the status is completed; processing_error is set exactly when the
\* status is failed.
C1_StatusRecordInvariant ==
    \A d \in DOMAIN docs :
        AfterRuns(d) =>
            /\ docs[d].processing_status \in {"pending", "processing", "completed", "failed"}
            /\ (docs[d].processed_at # NoTime) <=> (docs[d].processing_status = "completed")
            /\ (docs[d].processing_error # NULL) <=> (docs[d].processing_status = "failed")

\* C2: once every run started on a document has ended, whichever step failed,
\* the document's status is completed or failed: a run that set the status
\* to processing does not leave it there.
C2_RunEndsTerminal ==
    \A d \in DOMAIN docs :
        (/\ \A k \in RunsOn(d) : Settled(k)
         /\ \E k \in RunsOn(d) : runs[k].marked) =>
            docs[d].processing_status \in {"completed", "failed"}

\* The message of the error each step throws.
MessageOf(step, msg) ==
    CASE step = "pagecheck"  -> msg = E_NOPAGES
      [] step = "chunkcheck" -> msg = E_NOCHUNKS
      [] step = "countcheck" -> msg = E_NOSTORE
      [] step = "fetch"      -> msg = E_FETCH
      [] step = "extract"    -> msg = E_PARSE
      [] step = "embed"      -> msg \in {E_NOEMBED, E_DB}
      [] step \in {"mark", "complete"} -> msg = E_DB
      [] OTHER -> FALSE

\* The steps a run has executed are an initial part of the fixed order, and a
\* run in its catch block executed nothing after the step that threw.
C3_Order ==
    \A k \in 1..Len(runs) :
        LET r == runs[k]
            n == Len(r.steps)
        IN  /\ n <= Len(PipelineOrder)
            /\ r.steps = SubSeq(PipelineOrder, 1, n)
            /\ r.pc = "catch" =>
                  /\ n >= 1
                  /\ r.steps[n] = r.failedAt
                  /\ MessageOf(r.failedAt, r.err)
            /\ r.pc \notin {"catch", "done"} => r.failedAt = NULL /\ r.err = NULL

\* A run in its catch block does nothing but the write of failed with the
\* error's message; a run settles as completed only after all ten steps.
C3_Step ==
    \A k \in 1..Len(runs) :
        LET d == runs[k].doc
        IN  /\ (runs[k].pc = "catch" /\ runs'[k] # runs[k]) =>
                  /\ runs'[k].pc = "done"
                  /\ chunks' = chunks
                  /\ \/ /\ runs'[k].outcome = "failed"
                        /\ docs'[d].processing_status = "failed"
                        /\ docs'[d].processing_error = runs[k].err
                     \/ /\ runs'[k].outcome = "rejected"
                        /\ docs' = docs
            /\ (~Settled(k) /\ runs'[k].pc = "done" /\ runs'[k].outcome = "completed") =>
                  /\ Append(runs[k].steps, "complete") = PipelineOrder
                  /\ docs'[d].processing_status = "completed"

C4_TerminalThenProcessing ==
    [][\A d \in DOMAIN docs :
          (/\ docs[d].processing_status \in {"completed", "failed"}
           /\ docs'[d].processing_status # docs[d].processing_status)
          => docs'[d].processing_status = "processing"]_vars

\* C5: at no time are two pipeline runs for one document id both in progress.
C5_NoConcurrentRuns ==
    \A d \in DOMAIN docs : Cardinality({k \in RunsOn(d) : InProgress(k)}) <= 1



\* C6: each trigger request starts at most one run per document: an accepted
\* push starts exactly one run, for its documentId; a pull starts exactly one
\* run for each document it returns; a request that is refused, fails or is
\* still waiting for its query has started none.
C6_OneRunPerDocument ==
    \A i \in 1..Len(reqs) :
        LET mine == RunsBy(i)
        IN  /\ \A j, k \in mine : runs[j].doc = runs[k].doc => j = k
            /\ (reqs[i].kind = "push" /\ reqs[i].code = 200) =>
                  /\ Cardinality(mine) = 1
                  /\ \A k \in mine : runs[k].doc = reqs[i].doc
            /\ (reqs[i].kind = "pull" /\ reqs[i].code = 200) =>
                  /\ Cardinality(mine) = Len(reqs[i].ids)
                  /\ {runs[k].doc : k \in mine} = Range(reqs[i].ids)
            /\ reqs[i].code # 200 => mine = {}

C6_Witness ==
    /\ \E i \in 1..Len(reqs) :
          reqs[i].kind = "pull" /\ reqs[i].code = 200 /\ Cardinality(RunsBy(i)) >= 2
    /\ \E i \in 1..Len(reqs) :
          reqs[i].kind = "push" /\ reqs[i].code = 200 /\ Cardinality(RunsBy(i)) = 1

\* Every run was started after its trigger had answered 200 with the
\* document's id.
C7_Acked ==
    \A k \in 1..Len(runs) :
        LET rq == reqs[runs[k].req]
        IN  /\ runs[k].acked
            /\ rq.code = 200
            /\ rq.kind = "push" => rq.documentId = runs[k].doc
            /\ rq.kind = "pull" => runs[k].doc \in Range(rq.ids)

\* A response, once sent, is never changed by what the runs do.
C7_ResponseFinal ==
    \A i \in 1..Len(reqs) : reqs[i].code # 0 => reqs'[i] = reqs[i]

\* C7: a trigger sends its acknowledgement (with the documentId, or the ids)
\* before the run it starts performs its first action, the write of
\* processing, and the acknowledgement does not depend on the run's outcome.
C7_AckBeforeRun == [](C7_Acked) /\ [][C7_ResponseFinal]_vars

C7_Witness ==
    /\ \E k \in 1..Len(runs) :
          runs[k].outcome = "failed" /\ reqs[runs[k].req].kind = "push"
    /\ \E k \in 1..Len(runs) :
          runs[k].marked /\ ~Settled(k) /\ reqs[runs[k].req].kind = "pull"

\* The error of a run reaches neither the caller nor the process: the
\* caller's response stays the acknowledgement and no rejection is unhandled.
C8_Contained ==
    /\ unhandled = {}
    /\ \A k \in 1..Len(runs) :
          /\ reqs[runs[k].req].code = 200
          /\ reqs[runs[k].req].error = NULL

\* The catch block is entered once per run, and its write, when applied,
\* records the error in the status record.
C8_CaughtOnce ==
    \A k \in 1..Len(runs) :
        /\ Settled(k) => runs'[k] = runs[k]
        /\ (runs[k].pc = "catch" /\ runs'[k] # runs[k]) => Settled(k)'
        /\ (runs[k].pc = "catch" /\ runs'[k].outcome = "failed") =>
              docs'[runs[k].doc].processing_error = runs[k].err

BadHeader(hdr) == hdr # "Bearer s3cret"

\* A refused request is answered 401, has queried nothing and started no run.
C9_Refused ==
    \A i \in 1..Len(reqs) :
        BadHeader(reqs[i].hdr) =>
            /\ reqs[i].code = 401
            /\ ~reqs[i].queried
            /\ RunsBy(i) = {}

\* Handling a refused request changes no table and no run.
C9_NoEffect ==
    (Len(reqs') > Len(reqs) /\ BadHeader(reqs'[Len(reqs')].hdr)) =>
        /\ docs' = docs
        /\ chunks' = chunks
        /\ runs' = runs

\* C9: a push or pull request whose Authorization header is not exactly
\* Bearer <worker secret> is answered 401, starts no run, queries no
\* documents and changes no status record.
C9_Unauthorized == [](C9_Refused) /\ [][C9_NoEffect]_vars

C9_Witness ==
    /\ \E i \in 1..Len(reqs) : reqs[i].kind = "push" /\ reqs[i].hdr = "Bearer wrong"
                               /\ reqs[i].code = 401
    /\ \E i \in 1..Len(reqs) : reqs[i].kind = "pull" /\ reqs[i].hdr = "undefined"
                               /\ reqs[i].code = 401

\* The runs request i started, in the order it started them.
RunDocsBy(i) ==
    LET ks == RunsBy(i)
        F[n \in 0..Len(runs)] ==
            IF n = 0 THEN <<>>
            ELSE IF n \in ks THEN Append(F[n - 1], runs[n].doc) ELSE F[n - 1]
    IN  F[Len(runs)]

\* C10: a pull trigger selects the documents in the queued state, oldest
\* upload first, at most 10 of them (the oldest ones), starts one run for each
\* selected document, and reports the number of runs it starts and exactly
\* those documents' ids.
C10_PollSelection ==
    \A i \in 1..Len(reqs) :
        (reqs[i].kind = "pull" /\ reqs[i].code = 200) =>
            LET ids    == reqs[i].ids
                queued == {d \in DOMAIN docs : docs[d].processing_status = "queued"}
            IN  /\ Len(ids) <= PollLimit
                /\ Range(ids) \subseteq queued
                /\ \A a, b \in 1..Len(ids) :
                      a < b => docs[ids[a]].uploaded_at < docs[ids[b]].uploaded_at
                /\ \A d \in queued \ Range(ids) :
                      /\ Len(ids) = PollLimit
                      /\ \A a \in 1..Len(ids) :
                            docs[ids[a]].uploaded_at < docs[d].uploaded_at
                /\ reqs[i].count = Len(ids)
                /\ RunDocsBy(i) = ids

C10_Witness ==
    \E i \in 1..Len(reqs) :
        /\ reqs[i].kind = "pull" /\ reqs[i].count = PollLimit
        /\ Cardinality(RunsBy(i)) = PollLimit
        /\ \E d \in DOMAIN docs :
              docs[d].processing_status = "queued" /\ d \notin Range(reqs[i].ids)

\* Documents still as uploadDocument created them: no push trigger arrived
\* for them and no run was started for them.
Untriggered ==
    {d \in DOMAIN docs :
        /\ docs[d].processing_status = "pending"
        /\ RunsOn(d) = {}
        /\ \A i \in 1..Len(reqs) : ~(reqs[i].kind = "push" /\ reqs[i].doc = d)}

\* C11: a document created by uploadDocument whose push trigger failed or was
\* skipped is picked up by polling: a pull request that is answered 200 while
\* such a document waits (and no more than 10 wait) selects it and starts a
\* run for it.
C11_PolledPickup ==
    [][\A i \in 1..Len(reqs) :
          (/\ reqs[i].pc = "query"
           /\ reqs'[i].code = 200
           /\ Cardinality(Untriggered) <= PollLimit)
          => \A d \in Untriggered :
                /\ d \in Range(reqs'[i].ids)
                /\ \E k \in 1..Len(runs') : runs'[k].doc = d]_vars

RateLimited(response) ==
    response.thrown /\ (response.status = 429 \/ response.code = "rate_limit_exceeded")

Succeeded(response) ==
    ~response.thrown /\ response.hasData /\ response.isArray /\ response.items # <<>>

\* C17: a single-chunk embedding call retries only on rate-limit signals, at
\* most 3 times (at most 4 provider calls), waiting 2000ms times the number
\* of attempts already used before each retry (2000, 4000, 6000); rate
\* limits on the first 2 attempts followed by success yield the embedding
\* after exactly the delays 2000 and 4000; any other provider failure, and a
\* rate limit after the retries are exhausted, fails the call permanently
\* without a further provider call.
C17_RetryOnRateLimit ==
    LET n == Len(call.log)
    IN  /\ call.providerCalls <= DefaultRetries + 1
        /\ call.providerCalls = n + (IF call.pc = "provider" THEN 1 ELSE 0)
        /\ Len(call.waits) <= DefaultRetries
        /\ \A j \in 1..Len(call.waits) :
              /\ call.waits[j] = 2000 * j
              /\ j <= n
              /\ RateLimited(call.log[j])
        /\ \A j \in 1..n : j < n => RateLimited(call.log[j])
        /\ call.pc \in {"provider", "sleep"} => Len(call.waits) = n
        /\ call.pc = "sleep" => n >= 1 /\ RateLimited(call.log[n])
        /\ call.pc = "resolved" =>
              /\ n >= 1
              /\ Succeeded(call.log[n])
              /\ call.result = Embedding(call.input)
              /\ Len(call.waits) = n - 1
        /\ (n >= 1 /\ ~RateLimited(call.log[n]) /\ ~Succeeded(call.log[n])) =>
              call.pc = "rejected" /\ Len(call.waits) = n - 1
        /\ (n = DefaultRetries + 1 /\ RateLimited(call.log[n])) =>
              call.pc = "rejected" /\ call.waits = <<2000, 4000, 6000>>
        /\ call.pc = "rejected" => call.result = <<>>

C17_Witness ==
    /\ call.pc = "resolved"
    /\ Len(call.log) = 3
    /\ call.log[1].status = 429
    /\ call.log[2].code = "rate_limit_exceeded"
    /\ call.waits = <<2000, 4000>>
    /\ call.result = <<<<"a", "b">>>>

\* Of the invocation followed in batch: the positions whose callback
\* returned a row, those whose text is not blank, and those whose
\* generateEmbedding call has not settled.
Embedded == {j \in DOMAIN batch.calls : batch.calls[j] = "ok"}
NonBlank == {j \in 0..(Len(batch.list) - 1) : Trim(batch.list[j + 1].text) # <<>>}
InFlight == {j \in DOMAIN batch.calls : batch.calls[j] \in {"calling", "backoff"}}

\* The loop is over: every batch has been mapped and awaited.
LoopOver ==
    \/ batch.pc \in {"insert", "resolved"}
    \/ batch.pc = "rejected" /\ Len(batch.list) > 0

\* C14: every chunk record written by storeChunksWithEmbeddings carries a
\* non-empty embedding vector, the one the provider returned for that chunk's
\* own text, and the document id of the invocation; no chunk whose embedding
\* did not succeed is persisted.
C14_ValidEmbeddingPersisted ==
    \A r \in chunks \cup Range(batch.chunksWithEmbeddings) :
        /\ r.document_id = batch.documentId
        /\ r.chunk_index \in Embedded \cap NonBlank
        /\ r.embedding # <<>>
        /\ r.embedding = Embedding(Trim(batch.list[r.chunk_index + 1].text))
        /\ r.text = batch.list[r.chunk_index + 1].text

C14_Witness ==
    /\ batch.pc = "resolved"
    /\ \E q, r \in chunks : q.embedding # r.embedding
    /\ \E j \in NonBlank : batch.calls[j] = "null"

\* C15: a chunk whose embedding fails or whose text is empty is dropped
\* without aborting the batch: when the loop is over every non-blank chunk of
\* every group has had its embedding call, the operation fails only if no
\* chunk at all was embedded (or the insert failed), and when it returns it
\* has persisted exactly the chunks whose embedding succeeded and returns
\* their number.
C15_DropWithoutAbort ==
    /\ LoopOver =>
          /\ batch.started = NonBlank
          /\ \A j \in DOMAIN batch.calls : batch.calls[j] \in {"ok", "null"}
    /\ (batch.pc = "rejected" /\ Len(batch.list) > 0) =>
          \/ batch.error = E_NOEMBED /\ Embedded = {}
          \/ batch.error = E_DB /\ Embedded # {}
    /\ batch.pc = "resolved" =>
          /\ batch.returned = Cardinality(Embedded)
          /\ {r.chunk_index : r \in chunks} = Embedded
          /\ Cardinality(chunks) = batch.returned
    /\ batch.pc # "resolved" => chunks = {}

C15_Witness ==
    /\ batch.pc = "resolved"
    /\ Len(batch.list) > 6
    /\ batch.calls[0] = "null" /\ 0 \in NonBlank
    /\ 1 \notin NonBlank
    /\ batch.calls[2] = "ok"
    /\ batch.calls[6] = "ok"
    /\ batch.returned = Cardinality(chunks)

\* The calls of a batch start only when no earlier call is unsettled.
C18_StartAfterSettled ==
    batch'.started # batch.started => InFlight = {}

\* The batches are the consecutive groups of 5 positions; the calls in
\* flight are at most 5, all of the batch last mapped; every call of an
\* earlier batch has settled and no call of a later one has started; a pause
\* has followed every batch but the current one.
C18_Groups ==
    LET g == Len(batch.groups)
        n == Len(batch.list)
    IN  /\ \A k \in 1..g : batch.groups[k] = 5 * (k - 1)
        /\ Cardinality(InFlight) <= 5
        /\ \A j \in InFlight : 5 * (g - 1) <= j /\ j < 5 * g
        /\ \A j \in DOMAIN batch.calls :
              /\ j < 5 * (g - 1) => batch.calls[j] \in {"ok", "null"}
              /\ j >= 5 * g => batch.calls[j] = "idle"
        /\ batch.started \subseteq {j \in DOMAIN batch.calls : j < 5 * g}
        /\ batch.pc = "await" => Len(batch.pauses) = g - 1
        /\ batch.pc = "pause" => Len(batch.pauses) = g /\ 5 * g < n
        /\ LoopOver => /\ 5 * (g - 1) < n /\ n <= 5 * g
                       /\ Len(batch.pauses) = g - 1

\* C18: storeChunksWithEmbeddings partitions the chunk list in order into
\* groups of 5 (the last may be smaller); at most 5 single-chunk embedding
\* calls are in flight at any time; no call of group k+1 starts before every
\* call of group k, retries included, has settled; a pause follows every
\* group except the last.
C18_BoundedGroups == [](C18_Groups) /\ [][C18_StartAfterSettled]_vars

C18_Witness ==
    /\ Len(batch.groups) = 2
    /\ Cardinality(InFlight) = 5
    /\ \E j \in InFlight : batch.calls[j] = "backoff"
    /\ Len(batch.pauses) = 1
    /\ Len(batch.list) > 10

ChunksOf(d) == {r \in chunks : r.document_id = d}

\* C12: among the chunks persisted for one document chunk_index is unique
\* (the index of a row is the position at which the chunker produced the
\* chunk, so an earlier chunk has the smaller index, dropped chunks or not).
C12_ChunkIndexUnique ==
    \A d \in DOMAIN docs :
        \A q, r \in ChunksOf(d) : q.chunk_index = r.chunk_index => q = r

\* C13: re-running the orchestrator on a completed document with the same
\* bytes leaves the result of a single run: status completed, total_pages
\* set, no error left, and a chunk set without a duplicated chunk_index.
C13_RerunIdempotent ==
    \A d \in DOMAIN docs :
        (/\ Cardinality(RunsOn(d)) >= 2
         /\ \A k \in RunsOn(d) : Settled(k) /\ runs[k].outcome = "completed") =>
            /\ docs[d].processing_status = "completed"
            /\ docs[d].total_pages # NoPages
            /\ docs[d].processing_error = NULL
            /\ Cardinality(ChunksOf(d)) =
                  Cardinality({r.chunk_index : r \in ChunksOf(d)})

\* C16: when no chunk has a valid embedding storeChunksWithEmbeddings fails
\* without a write and the run ends failed; otherwise it writes the embedded
\* chunks once and returns their number, at least 1, so that the count check
\* after it is never the step that fails.
C16_NoEmbeddingFails ==
    [][\A k \in 1..Len(runs) :
          /\ (runs[k].pc = "embed" /\ runs'[k].err = E_NOEMBED) => chunks' = chunks
          /\ (runs[k].pc = "embed" /\ runs'[k].pc = "complete") =>
                /\ runs'[k].chunkCount >= 1
                /\ Cardinality(chunks' \ chunks) = runs'[k].chunkCount
          /\ runs'[k].failedAt # "countcheck"
          /\ (runs[k].pc = "catch" /\ runs[k].err = E_NOEMBED /\ runs'[k].pc = "done") =>
                docs'[runs[k].doc].processing_status = "failed"]_vars

LongEnough(w) == Len(w) > 50

\* C19: chunkText(text, size, overlap) returns, in order, exactly the trimmed
\* windows text[k*(size-overlap) : k*(size-overlap)+size] for k = 0, 1, ...
\* while k*(size-overlap) is less than the text's length, keeping a window
\* only when its trimmed length exceeds 50; every emitted chunk has trimmed
\* length greater than 50 and at most size; empty text yields no chunk.
C19_TrimmedWindows ==
    chunker.pc = "returned" =>
        LET text == chunker.text
            size == chunker.chunkSize
            step == chunker.chunkSize - chunker.overlap
            K    == IF Len(text) = 0 THEN 0 ELSE ((Len(text) - 1) \div step) + 1
            W    == [k \in 1..K |-> Trim(Slice(text, (k - 1) * step, (k - 1) * step + size))]
        IN  /\ chunker.chunks = SelectSeq(W, LongEnough)
            /\ \A c \in 1..Len(chunker.chunks) :
                  /\ Len(chunker.chunks[c]) > 50
                  /\ Len(chunker.chunks[c]) <= size
                  /\ Trim(chunker.chunks[c]) = chunker.chunks[c]
            /\ text = <<>> => chunker.chunks = <<>>

C19_Witness ==
    /\ chunker.pc = "returned"
    /\ chunker.chunkSize = 800
    /\ Len(chunker.text) > 800
    /\ Len(chunker.chunks) = 2
    /\ Len(chunker.chunks[1]) < 800
    /\ chunker.chunks[2] # chunker.chunks[1]

\* C20: a document whose N extracted pages are all non-blank and longer than
\* the 50-character threshold gets at least N chunks: every such page yields
\* at least one chunk from chunkText(page.text, 800, 100).
C20_ChunkPerPage ==
    chunker.pc \in {"chunked", "thrown"} =>
        LET long == {p \in 1..Len(chunker.pages) :
                        /\ Trim(chunker.pages[p].text) # <<>>
                        /\ Len(chunker.pages[p].text) > 50}
        IN  /\ \A p \in long :
                  \E c \in 1..Len(chunker.allChunks) :
                      chunker.allChunks[c].pageNumber = chunker.pages[p].pageNumber
            /\ Cardinality(long) = Len(chunker.pages) =>
                  Len(chunker.allChunks) >= Len(chunker.pages)

\* The 2000-character windows of a text without a character that is not
\* white space.
BlankWindows(text) ==
    {w \in 0..((Len(text) - 1) \div CharsPerPage) :
        \A p \in (w * CharsPerPage + 1)..Min((w + 1) * CharsPerPage, Len(text)) :
            text[p] = " "}

\* C21: for every file type the k-th page parseFile returns has page number k.
C21_DensePageNumbers ==
    parser.pc = "parsed" =>
        \A k \in 1..Len(parser.result.pages) : parser.result.pages[k].pageNumber = k

\* C22: a text file of 6000 characters without a blank window of 2000 is
\* returned as 3 pages with totalPages 3, and its run goes on to the
\* embedding step (and from there to completed with total_pages 3) rather
\* than into the catch block.
C22_ThreePseudoPages ==
    (/\ parser.pc \in {"parsed", "embed", "catch"}
     /\ ToLowerCase(parser.file.fileType) = "txt"
     /\ Len(parser.file.text) = 3 * CharsPerPage
     /\ BlankWindows(parser.file.text) = {}) =>
        /\ parser.pc # "catch"
        /\ Len(parser.result.pages) = 3
        /\ parser.result.totalPages = 3

\* C23: a run whose extraction throws (blank or empty text, a file type
\* without a handler) persists no chunk, calls no embedding, and ends with
\* status failed and a non-empty processing_error.
C23_BlankOrUnsupportedFails ==
    [][\A k \in 1..Len(runs) :
          /\ (runs[k].pc = "extract" /\ runs'[k].failedAt = "extract") =>
                chunks' = chunks /\ runs'[k].pc = "catch"
          /\ (runs[k].pc = "catch" /\ runs[k].failedAt = "extract" /\ runs'[k].pc = "done") =>
                /\ "embed" \notin Range(runs[k].steps)
                /\ chunks' = chunks
                /\ docs'[runs[k].doc].processing_status = "failed"
                /\ docs'[runs[k].doc].processing_error \notin {NULL, ""}]_vars

\* C24: detectLanguage is called at most once in a run, and once, on the full
\* extracted text, in a run that chunks; every chunk, and the row persisted
\* for it, carries the code it returned: en for a text of fewer than 10
\* characters after trimming, for an undetermined, failed or unmapped
\* detection, and the table's code otherwise.
C24_OneLanguagePerRun ==
    /\ parser.pc # "none" => Len(parser.detections) <= 1
    /\ parser.pc = "embed" =>
          /\ parser.detections = <<parser.result.text>>
          /\ parser.language =
                IF Len(Trim(parser.result.text)) < 10 THEN "en"
                ELSE CASE parser.franc = "eng" -> "en"
                       [] parser.franc = "fra" -> "fr"
                       [] parser.franc = "tam" -> "ta"
                       [] OTHER -> "en"
          /\ \A c \in 1..Len(parser.allChunks) :
                /\ parser.allChunks[c].language = parser.language
                /\ ChunkRow(StoreCall(1, parser.allChunks), c - 1).language = parser.language

C24_Witness ==
    /\ parser.pc = "embed"
    /\ parser.language = "ta"
    /\ Len(parser.allChunks) >= 2
    /\ Len(parser.result.pages) >= 2

\* The stored chunks the search is about, and the similarity of one.
Eligible == SelectChunks(chunks, search.documentIds)
SimilarityOf(row) == cosineSimilarity(search.queryEmbedding, row.embedding.json).value
ReturnedIds == {search.returned[i].chunkId : i \in 1..Len(search.returned)}

\* C25: the fallback search returns at most topK results, in non-increasing
\* order of similarity, each the result of a distinct stored chunk of a
\* candidate document with an embedding, and no such chunk left out has a
\* strictly higher similarity than a returned one.
C25_TopKRanking ==
    search.pc = "returned" =>
        LET out == search.returned
        IN  /\ Len(out) <= search.topK
            /\ \A i, j \in 1..Len(out) :
                  i < j => /\ ~Less(out[i].similarity, out[j].similarity)
                           /\ out[i].chunkId # out[j].chunkId
            /\ \A i \in 1..Len(out) :
                  \E row \in chunks :
                     /\ row.id = out[i].chunkId
                     /\ row.document_id = out[i].documentId
                     /\ row.document_id \in search.documentIds
                     /\ ~row.embedding.isNull
                     /\ out[i].similarity = SimilarityOf(row)
            /\ \A row \in Eligible :
                  row.id \notin ReturnedIds =>
                     \A i \in 1..Len(out) : ~Less(out[i].similarity, SimilarityOf(row))

C25_Witness ==
    /\ search.pc = "returned"
    /\ search.topK = 1
    /\ Len(search.returned) = 1
    /\ Cardinality(Eligible) = 2
    /\ \E row \in Eligible :
          row.id \notin ReturnedIds /\ Less(SimilarityOf(row), search.returned[1].similarity)
    /\ \E row \in chunks : row \notin Eligible

ZeroVector(v) == \A i \in 1..Len(v) : v[i] = 0
Mismatched == {j \in 1..Len(search.data) :
                  Len(search.data[j].embedding.json) # Len(search.queryEmbedding)}

\* C26: in a search that returns, every stored vector has the length of the
\* query vector, and a chunk's similarity is 0 when its vector or the query
\* vector is the zero vector; when one returned row's vector has another
\* length the search fails with 'Vectors must have the same length' and
\* returns no ranking at all.
C26_ZeroAndMismatch ==
    /\ search.pc = "returned" =>
          /\ Mismatched = {}
          /\ \A j \in 1..Len(search.data) :
                (ZeroVector(search.queryEmbedding)
                    \/ ZeroVector(search.data[j].embedding.json)) =>
                   \E i \in 1..Len(search.results) :
                      /\ search.results[i].chunkId = search.data[j].id
                      /\ search.results[i].similarity.num = 0
    /\ (search.pc \in {"returned", "rejected"} /\ Mismatched # {}) =>
          /\ search.pc = "rejected"
          /\ search.error = "Vectors must have the same length"
          /\ search.results = <<>>
          /\ search.returned = <<>>

C26_Witness ==
    /\ search.pc = "rejected"
    /\ Cardinality(Mismatched) = 1
    /\ Len(search.data) = 3
    /\ \E j \in 1..Len(search.data) : ZeroVector(search.data[j].embedding.json)

\* C27: a deletion request answered as successful has deleted the document
\* and its chunks from the database, also when the object-store deletion
\* failed, which alone never makes the answer an error; a request answered
\* 404 has deleted nothing.
C27_DeletionTolerant ==
    deletion.pc = "done" =>
        /\ deletion.code = 200 =>
              /\ deletion.id \notin DOMAIN docs
              /\ \A row \in chunks : row.document_id # deletion.id
        /\ deletion.destroyed = "failed" =>
              /\ deletion.code \in {200, 500}
              /\ deletion.code = 500 => deletion.body = E_DB /\ DOMAIN docs = 1..DeleteDocs
        /\ deletion.code = 404 =>
              /\ deletion.destroyed = "no"
              /\ DOMAIN docs = 1..DeleteDocs
              /\ \A d \in DOMAIN docs : Cardinality({row \in chunks : row.document_id = d}) = 2

\* C28: a step that changes a document's status record or its chunks is a
\* step of one run for that document, which changes no other run, no other
\* document's record, and adds only chunks of its own document: whatever a
\* run for A does, and however the runs interleave, B's record and chunks
\* stay as they are.
C28_RunsIndependent ==
    [][\A d \in DOMAIN docs :
          (docs'[d] # docs[d]
              \/ {r \in chunks' : r.document_id = d} # {r \in chunks : r.document_id = d}) =>
             \E k \in 1..Len(runs) :
                /\ runs[k].doc = d
                /\ runs'[k] # runs[k]
                /\ \A j \in 1..Len(runs) : j # k => runs'[j] = runs[j]
                /\ \A r \in chunks' \ chunks : r.document_id = d /\ r.run = k
                /\ chunks \subseteq chunks'
                /\ \A e \in DOMAIN docs : e # d => docs'[e] = docs[e]]_vars

C28_Witness ==
    \E k1, k2 \in 1..Len(runs) :
        /\ runs[k1].doc = 1 /\ runs[k1].outcome = "failed"
        /\ runs[k2].doc = 2 /\ runs[k2].outcome = "completed"
        /\ docs[1].processing_status = "failed"
        /\ docs[2].processing_status = "completed"
        /\ ChunksOf(1) = {}
        /\ ChunksOf(2) # {}

\* C29: a document whose status is failed has a processing_error and no
\* total_pages value, after any sequence of runs on it.
C29_FailedHasNoPages ==
    \A d \in DOMAIN docs :
        docs[d].processing_status = "failed" =>
            /\ docs[d].processing_error # NULL
            /\ docs[d].total_pages = NoPages

Ceil(n, d) == (n + d - 1) \div d

C30_Cursor ==
    chunker.pc \in {"loop", "returned"} =>
        LET step == chunker.chunkSize - chunker.overlap
        IN  /\ chunker.start = chunker.iterations * step
            /\ chunker.iterations <= Ceil(Len(chunker.text), step)
            /\ chunker.pc = "returned" =>
                  /\ chunker.iterations = Ceil(Len(chunker.text), step)
                  /\ chunker.chunks = chunkText(chunker.text, chunker.chunkSize,
                                                chunker.overlap)

C30_Advance ==
    chunker'.iterations = chunker.iterations + 1 =>
        /\ chunker'.start = chunker.start + (chunker.chunkSize - chunker.overlap)
        /\ chunker'.start > chunker.start

\* C30: with overlap < size the cursor of chunkText grows by size - overlap
\* in each iteration, and the loop ends, after ceil(length / (size - overlap))
\* iterations; so it does with the sizes 800 and 100.
C30_ChunkTerminates ==
    /\ [](C30_Cursor)
    /\ [][C30_Advance]_vars
    /\ <>(chunker.pc = "returned")

C30_Witness ==
    /\ chunker.pc = "returned"
    /\ chunker.chunkSize = ChunkSize
    /\ chunker.overlap = ChunkOverlap
    /\ chunker.iterations = 3
    /\ Len(chunker.text) > 2 * ChunkSize - ChunkOverlap

\* Slice i of a text of the given length cut into totalPages slices, with
\* the bounds computed exactly.
SliceStart(length, totalPages, i) == (i * length) \div totalPages
ExactSlice(text, totalPages, i) ==
    Trim(Slice(text, SliceStart(Len(text), totalPages, i),
               SliceStart(Len(text), totalPages, i + 1)))

\* C31: for a PDF with totalPages >= 1 the returned pages are the slices
\* [floor(i*len/totalPages), floor((i+1)*len/totalPages)) of the text,
\* trimmed, which together cover the text; the slices that are empty after
\* trimming are left out, and the page kept for slice i has number i + 1.
C31_PdfSlices ==
    (/\ parser # NoService
     /\ parser.pc = "parsed"
     /\ ToLowerCase(parser.file.fileType) = "pdf"
     /\ parser.file.numpages >= 1) =>
        LET text  == parser.file.text
            n     == parser.file.numpages
            pages == parser.result.pages
            kept  == {i \in 0..(n - 1) : Len(ExactSlice(text, n, i)) > 0}
        IN  /\ Len(pages) = Cardinality(kept)
            /\ \A k \in 1..Len(pages) :
                   /\ pages[k].pageNumber - 1 \in kept
                   /\ pages[k].text = ExactSlice(text, n, pages[k].pageNumber - 1)
                   /\ k > 1 => pages[k - 1].pageNumber < pages[k].pageNumber

\* Window w of a text cut into windows of c characters, and the windows
\* below a given one that are not blank, in ascending order.
Window(text, c, w) == Slice(text, w * c, (w + 1) * c)
KeptWindows(text, c, upto) ==
    LET kept == {w \in 0..(upto - 1) : Len(Trim(Window(text, c, w))) > 0}
    IN  [k \in 1..Cardinality(kept) |->
            CHOOSE w \in kept : Cardinality({v \in kept : v < w}) = k - 1]
WindowPages(text, c, upto) ==
    LET kept == KeptWindows(text, c, upto)
    IN  [k \in 1..Len(kept) |->
            [pageNumber |-> k, text |-> Trim(Window(text, c, kept[k]))]]

C32_Windows ==
    /\ (parser # NoService /\ parser.pc \in {"split", "returned"}) =>
          /\ parser.start = parser.iterations * parser.charsPerPage
          /\ parser.iterations <= Ceil(Len(parser.text), parser.charsPerPage)
          /\ parser.pages = WindowPages(parser.text, parser.charsPerPage,
                                        parser.iterations)
          /\ parser.pageNumber = Len(parser.pages) + 1
          /\ parser.pc = "returned" =>
                /\ parser.iterations = Ceil(Len(parser.text), parser.charsPerPage)
                /\ parser.pages = splitTextIntoPages(parser.text, parser.charsPerPage)
    /\ (/\ parser # NoService
        /\ parser.pc = "parsed"
        /\ ToLowerCase(parser.file.fileType) \in {"txt", "docx"}) =>
          /\ parser.result.pages =
                 WindowPages(parser.file.text, CharsPerPage,
                             Ceil(Len(parser.file.text), CharsPerPage))
          /\ parser.result.totalPages = Len(parser.result.pages)

\* C32: the splitter walks the text in consecutive windows of charsPerPage
\* characters, drops the windows that are blank and numbers the kept ones
\* 1, 2, 3, ... in order; the Word and text extractors report as totalPages
\* the number of kept windows; and the loop ends for every text.
C32_SplitTerminates == [](C32_Windows) /\ <>(parser.pc # "split")

C32_Witness ==
    /\ parser.pc = "returned"
    /\ parser.iterations = 3
    /\ Len(parser.pages) = 2
    /\ parser.pages[2].pageNumber = 2
    /\ Len(Trim(Window(parser.text, parser.charsPerPage, 1))) = 0

\* C33: generateEmbedding on a text that is empty after trimming rejects at
\* once, without a call of the provider and without a retry; in
\* storeChunksWithEmbeddings a chunk whose text is empty after trimming is
\* dropped without a call of generateEmbedding.
C33_EmptyTextNoCall ==
    /\ (Len(call.text) = 0 \/ Len(Trim(call.text)) = 0) =>
          /\ call.pc \in {"start", "rejected"}
          /\ call.providerCalls = 0
          /\ call.waits = <<>>
          /\ call.log = <<>>
          /\ call.retries = DefaultRetries
          /\ call.pc = "rejected" =>
                call.error = "Failed to generate embedding: Text cannot be empty"
    /\ \A j \in DOMAIN batch.calls :
          (Len(batch.list[j + 1].text) = 0 \/ Len(Trim(batch.list[j + 1].text)) = 0) =>
             /\ j \notin batch.started
             /\ batch.calls[j] \in {"idle", "null"}
             /\ batch.pc # "call" /\ j \in BatchOf(batch, batch.i) =>
                   batch.calls[j] = "null"
             /\ \A r \in 1..Len(batch.chunksWithEmbeddings) :
                   batch.chunksWithEmbeddings[r].chunk_index # j

C33_Witness ==
    /\ call.text = <<" ", " ">>
    /\ call.pc = "rejected"
    /\ call.providerCalls = 0
    /\ batch.pc = "resolved"
    /\ batch.calls[0] = "null"
    /\ batch.started = {1}
    /\ batch.returned = 1

\* The chunks run k has persisted for its document.
ChunksOfRun(k) == {r \in chunks : r.run = k /\ r.document_id = runs[k].doc}

C34_CompletedHasChunks ==
    \A k \in 1..Len(runs) :
        runs[k].outcome = "completed" => ChunksOfRun(k) # {}

C34_InsertBeforeCompleted ==
    \A k \in 1..Len(runs) :
        (runs[k].outcome # "completed" /\ runs'[k].outcome = "completed") =>
            /\ runs[k].pc = "complete"
            /\ runs[k].steps[Len(runs[k].steps) - 1] = "embed"
            /\ ChunksOfRun(k) # {}
            /\ chunks' = chunks
            /\ docs'[runs[k].doc].processing_status = "completed"

\* C34: a run writes completed only after its bulk insert has succeeded:
\* when it sets the document to completed, the chunk store already holds at
\* least one chunk of the document that this run inserted.
C34_CompletedAfterInsert ==
    [](C34_CompletedHasChunks) /\ [][C34_InsertBeforeCompleted]_vars

C34_Witness ==
    \E k \in 1..Len(runs) :
        /\ runs[k].outcome = "completed"
        /\ docs[runs[k].doc].processing_status = "completed"
        /\ ChunksOfRun(k) # {}
        /\ \E r \in chunks : r.run # k

\* C35: a run that ends by writing failed has persisted no chunk: when its
\* outcome is failed the chunk store holds no row written by that run,
\* whichever step failed.
C35_FailedHasNoChunks ==
    \A k \in 1..Len(runs) :
        runs[k].outcome = "failed" => {r \in chunks : r.run = k} = {}

\* C36: the handler destroys the stored file and answers 'Document deleted
\* successfully' only for a document whose row it removes: after that answer
\* the row is gone, whoever the requesting user is and also for a seeded
\* document of another user, and the stored file of a row that remains has
\* not been destroyed.
C36_SuccessMeansRowRemoved ==
    /\ (/\ deletion.pc = "done"
        /\ deletion.code = 200
        /\ deletion.body = "Document deleted successfully") =>
          deletion.id \notin DOMAIN docs
    /\ \A d \in DOMAIN docs :
          docs[d].cloudinary_id # NULL => docs[d].cloudinary_id \in deletion.files

\* The step in which pull request i is answered after its query.
C37_Answered(i) == reqs[i].kind = "pull" /\ reqs[i].pc = "query" /\ reqs'[i].pc = "done"

C37_PollStep ==
    \A i \in 1..Len(reqs) :
        C37_Answered(i) =>
            /\ (/\ \A d \in DOMAIN docs : docs[d].processing_status # "queued"
                /\ reqs'[i].code # 500) =>
                  /\ reqs'[i].code = 200
                  /\ reqs'[i].count = 0
                  /\ reqs'[i].ids = <<>>
                  /\ runs' = runs
            /\ reqs'[i].code # 200 =>
                  /\ reqs'[i].code = 500
                  /\ reqs'[i].error = E_DB
                  /\ reqs'[i].count = -1
                  /\ runs' = runs
                  /\ docs' = docs
                  /\ chunks' = chunks

C37_NoRunWithoutDocument ==
    \A k \in 1..Len(runs) :
        reqs[runs[k].req].kind = "pull" =>
            /\ reqs[runs[k].req].code = 200
            /\ reqs[runs[k].req].count >= 1

\* C37: a pull trigger whose query returns no queued document answers with
\* count 0 and starts no run; one whose query fails answers with the error,
\* starts no run and changes no status record.
C37_EmptyOrFailedPoll == [](C37_NoRunWithoutDocument) /\ [][C37_PollStep]_vars

C37_Witness ==
    /\ Len(reqs) = 2
    /\ reqs[1].kind = "pull" /\ reqs[1].code = 200 /\ reqs[1].count = 0
    /\ reqs[2].kind = "pull" /\ reqs[2].code = 500
    /\ runs = <<>>
    /\ docs[1].processing_status = "pending"

====
